---- MODULE Spec2Model ----
(***************************************************************************)
(* State-machine model of the socket engine (src/src/engine.rs,            *)
(* src/src/socket.rs, src/src/event.rs), of the endpoint functions of      *)
(* src/src/endpoint.rs, of the stream sender of src/src/senders.rs         *)
(* (TcpSender::send) and of the stream listener of src/src/listeners.rs    *)
(* (TcpListenerHandler).                                                   *)
(*                                                                         *)
(* The caller thread performs add_observer, start_listener_async and       *)
(* send_async one after the other; every spawned closure (listener,        *)
(* connection reader, send request) is a background task that interleaves  *)
(* freely with the caller and with the other tasks.  A call of             *)
(* notify_all_observers is a loop over the task's own copy of the observer *)
(* list; one iteration of that loop is one step of the model.              *)
(*                                                                         *)
(* Every result of an OS call (socket, dup, setsockopt, bind, listen,       *)
(* accept, read, send_to, connect, write, flush, shutdown) is chosen by the *)
(* environment.  An observer's on_engine_event returns or never returns;    *)
(* its lock can also be poisoned or kept by another holder of the handle.   *)
(***************************************************************************)
EXTENDS Naturals, Sequences, FiniteSets, TLC

\* ------------------------------------------------------------------ bounds
MaxObservers == 2   \* add_observer calls
MaxStarts == 1      \* start_listener_async calls
MaxSends == 1       \* send_async calls
MaxLoop == 1        \* event-emitting iterations of one accept/receive/read loop
MaxFaults == 1      \* observers whose lock is poisoned or never released
MaxWouldBlock == 1  \* would-block results of one accept/receive loop
MaxRead == 2        \* length of the read buffer of a connection reader
MaxListeners == 2   \* start_listener_async calls of a caller that starts several
MaxRestarts == 1    \* further start_listener calls on sockets that are listening

\* ------------------------------------------------------------- input sets
SocketAddrs == {"127.0.0.1:9001", "127.0.0.1:9002"}
IpnAddrs == {"ipn:1.2"}
PeerAddrs == {"127.0.0.1:5001"}
Tokens == <<"t1", "t2", "t3">>
DataLens == {1, 2}
PeerStream == <<1, 2, 3>>   \* the bytes a connected peer writes before it closes

Endpoint(p, a) == [proto |-> p, endpoint |-> a]
NoEndpoint == [proto |-> "None", endpoint |-> ""]

ListenInputs ==
    { Endpoint("Udp", "127.0.0.1:9001"), Endpoint("Tcp", "127.0.0.1:9001"),
      Endpoint("Bp", "ipn:1.2"), Endpoint("Udp", "bad") }
SourceInputs ==
    { NoEndpoint, Endpoint("Udp", "127.0.0.1:9001"),
      Endpoint("Tcp", "127.0.0.1:9001") }
TargetInputs ==
    { Endpoint("Udp", "127.0.0.1:9002"), Endpoint("Tcp", "127.0.0.1:9002"),
      Endpoint("Bp", "ipn:1.2"), Endpoint("Udp", "bad") }

ObserverIds == 1..MaxObservers

VARIABLES
    observers,  \* Engine.observers: the registry, a sequence of observer ids
    sockets,    \* Engine.sockets: the cache, a function Endpoint -> GenericSocket
    os,         \* the OS socket table: os[fd] = [bound, nonblocking, addr, inbox, params]
    tasks,      \* the spawned background closures, in spawn order
    log,        \* log[o]: the events observer o's on_engine_event was called with
    lockSt,     \* lockSt[o]: state of observer o's Mutex
    panicked,   \* the caller thread panicked inside an engine call
    nStarts,    \* start_listener_async calls made
    nSends,     \* send_async calls made
    call        \* the last call of a function of endpoint.rs: [fn, arg, ret]

vars == <<observers, sockets, os, tasks, log, lockSt, panicked, nStarts, nSends, call>>

\* ------------------------------------------------------------------ events
Ev(type, ep, token, reason, bytes) ==
    [type |-> type, ep |-> ep, token |-> token, reason |-> reason, bytes |-> bytes,
     data |-> <<>>]

Received(len, from) == Ev("Received", from, "", "", len)
ReceivedData(data, from) == [Received(Len(data), from) EXCEPT !.data = data]
Sending(token, to, len) == Ev("Sending", to, token, "", len)
Sent(token, to, len) == Ev("Sent", to, token, "", len)
ListenerStarted(ep) == Ev("ListenerStarted", ep, "", "", 0)
Established(remote) == Ev("Established", remote, "", "", 0)
Closed(remote) == Ev("Closed", remote, "", "", 0)
ConnectionFailed(ep, reason, token) == Ev("ConnectionFailed", ep, token, reason, 0)
SendFailed(ep, token, reason) == Ev("SendFailed", ep, token, reason, 0)
ReceiveFailed(ep, reason) == Ev("ReceiveFailed", ep, "", reason, 0)
SocketError(ep, reason) == Ev("SocketError", ep, "", reason, 0)

\* ----------------------------------------------------------------- sockets
\* A GenericSocket value: the OS handle (fd indexes the OS table; duplicates share
\* it), the Endpoint it was built from and the listening flag.  fd = 0 is no socket.
NoSocket == [fd |-> 0, endpoint |-> NoEndpoint, listening |-> FALSE]
OkRes(s, created) == [ok |-> TRUE, sock |-> s, created |-> created]
ErrRes == [ok |-> FALSE, sock |-> NoSocket, created |-> FALSE]

AllEndpoints == ListenInputs \cup SourceInputs \cup TargetInputs

\* addr.parse() of a std socket address / create_bp_sockaddr_with_string
AddrParses(e) ==
    IF e.proto = "Bp" THEN e.endpoint \in IpnAddrs ELSE e.endpoint \in SocketAddrs

\* The numbers of the socket families, types and protocols (libc, socket2).
AF_INET == 2
AF_INET6 == 10
AF_BP == 28
SOCK_STREAM == 1
SOCK_DGRAM == 2
IPPROTO_TCP == 6
IPPROTO_UDP == 17

\* Domain::for_address(std_sock): every address of SocketAddrs is an IPv4 one.
DomainForAddress(a) == IF a \in SocketAddrs THEN AF_INET ELSE AF_INET6

\* The (domain, semtype, proto) of GenericSocket::new, by match &endpoint.proto.
SocketParams(e) ==
    IF e.proto = "Udp"
    THEN [domain |-> DomainForAddress(e.endpoint), type |-> SOCK_DGRAM,
          protocol |-> IPPROTO_UDP]
    ELSE IF e.proto = "Tcp"
    THEN [domain |-> DomainForAddress(e.endpoint), type |-> SOCK_STREAM,
          protocol |-> IPPROTO_TCP]
    ELSE [domain |-> AF_BP, type |-> SOCK_DGRAM, protocol |-> IPPROTO_UDP]

\* GenericSocket::new: the address is resolved first, then Socket::new asks the OS
\* (osOk) for a handle, which becomes the next entry of the OS table.
GenericSocketNew(e, osOk) ==
    IF AddrParses(e) /\ osOk
    THEN OkRes([fd |-> Len(os) + 1, endpoint |-> e, listening |-> FALSE], TRUE)
    ELSE ErrRes

\* The OS table after a socket acquisition: a socket made by Socket::new is unbound
\* and blocking.
OsAfter(res) ==
    IF res.created
    THEN Append(os, [bound |-> "unbound", nonblocking |-> FALSE,
                     addr |-> NoEndpoint, inbox |-> <<>>,
                     params |-> SocketParams(res.sock.endpoint)])
    ELSE os

\* GenericSocket::try_clone: another handle of the same OS socket.
TryClone(s, dupOk) == IF dupOk THEN OkRes(s, FALSE) ELSE ErrRes

\* endpoint_to_sockaddr: the target endpoint as a socket address.
EndpointToSockaddrOk(e) == AddrParses(e)

\* self.sockets.get(&e)
Cached(cache, e) == e \in AllEndpoints /\ cache[e].fd # 0

\* ------------------------------------------------------------------- tasks
\* A task is one spawned closure.  pc is its place in the code, observers its copy
\* of the observer list, res the socket result it was given, em the events it has
\* passed to notify_all_observers, ni the index of the observer its current call of
\* notify_all_observers stands at (0: no call in progress).  fail, failed, path,
\* boundAtSend, regAt, cacheAt and osLenAt record what happened, for the properties
\* (buffer: the read buffer of a connection reader, pos: how many bytes of the
\* peer's stream it has read, reads: what each of its reads returned;
\* failed: the calls of the send path that returned an error; wb: for each
\* would-block result of the task's loop, how many events it had emitted by then).
NewTask(kind, pc, res, ep) ==
    [kind |-> kind, pc |-> pc, observers |-> observers, res |-> res,
     endpoint |-> ep, source |-> NoEndpoint, peer |-> NoEndpoint,
     token |-> "", bytes |-> 0, em |-> <<>>, ni |-> 0, n |-> 0,
     fail |-> "none", failed |-> {}, wb |-> <<>>, path |-> "none",
     boundAtSend |-> "none", senders |-> <<>>, buffer |-> <<>>, pos |-> 0, reads |-> <<>>,
     regAt |-> <<>>, cacheAt |-> sockets, osLenAt |-> Len(os)]

\* A call notify_all_observers(&observers, &ev) begins: the event is the task's next
\* emitted event and the loop stands at the first observer of the task's list.
\* regAt notes how many observers the engine's registry held at that moment.
Emit(tk, ev, pc) ==
    [tk EXCEPT !.em = Append(@, ev),
               !.regAt = Append(@, Len(observers)),
               !.ni = IF Len(tk.observers) = 0 THEN 0 ELSE 1,
               !.pc = pc]

\* Task t is between two notify_all_observers calls.
Running(t, pc) == tasks[t].ni = 0 /\ tasks[t].pc = pc

\* -------------------------------------------------------------- endpoint.rs
\* A string is a sequence of one-character strings.
UpperLetters ==
    <<"A", "B", "C", "D", "E", "F", "G", "H", "I", "J", "K", "L", "M",
      "N", "O", "P", "Q", "R", "S", "T", "U", "V", "W", "X", "Y", "Z">>
LowerLetters ==
    <<"a", "b", "c", "d", "e", "f", "g", "h", "i", "j", "k", "l", "m",
      "n", "o", "p", "q", "r", "s", "t", "u", "v", "w", "x", "y", "z">>
Digits == <<"0", "1", "2", "3", "4", "5", "6", "7", "8", "9">>

\* The addresses given to create_bp_sockaddr_with_string.
BpStrings ==
    { <<>>,
      <<"i", "p", "n", ":", "1", ".", "2">>,
      <<"i", "p", "n", ":", "4", "2", ".", "7">>,
      <<"i", "p", "n", ":", "1", "2">>,
      <<"i", "p", "n", ":", "a", "b", "c", ".", "1">>,
      <<"i", "p", "n", ":", "1", ".", "2", ".", "3">>,
      <<"i", "p", "n", ":", ".", "1">>,
      <<"i", "p", "n", ":", "1", ".">>,
      <<"i", "p", "n", ":">>,
      <<"i", "p", "n", ":", ".">>,
      <<"i", "p", "n", ":", "1", ".", ".", "2">>,
      <<"i", "p", "n", ":", "4", "2", "9", "4", "9", "6", "7", "2", "9", "5", ".", "0">>,
      <<"i", "p", "n", ":", "4", "2", "9", "4", "9", "6", "7", "2", "9", "6", ".", "0">>,
      <<"i", "p", "n", ":", "0", ".", "4", "2", "9", "4", "9", "6", "7", "2", "9", "6">>,
      <<"i", "p", "n", ":", "0", ".", "4", "2", "9", "4", "9", "6", "7", "2", "9", "5">>,
      <<"i", "p", "n", ":", "9", "9", "9", "9", "9", "9", "9", "9", "9", "9", "9", ".", "1">>,
      <<"i", "p", "n", ":", "0", "0", "0", "0", "0", "0", "0", "0", "0", "0", "1", ".", "1">>,
      <<"i", "p", "n", ":", "+", "1", ".", "2">>,
      <<"i", "p", "n", ":", "1", ".", "+", "2">>,
      <<"i", "p", "n", ":", "+", ".", "1">>,
      <<"i", "p", "n", ":", "-", "1", ".", "2">>,
      <<"i", "p", "n", ":", "1", ".", "-", "0">>,
      <<"i", "p", "n", ":", "1", ".", "2", " ">>,
      <<"i", "p", "n", ":", " ", "1", ".", "2">>,
      <<"i", "p", "n", ":", "1", "a", ".", "2">>,
      <<"i", "p", "n", ":", "0", ".", "0">>,
      <<"I", "P", "N", ":", "1", ".", "2">>,
      <<"i", "p", "n">>,
      <<"d", "t", "n", ":">>,
      <<"d", "t", "n", ":", "/", "/", "a", "/", "b">>,
      <<"d", "t", "n", ":", "1", ".", "2">>,
      <<"x">>,
      <<"1", ".", "2">>,
      <<"i", "p", "n", "1", ".", "2">> }

\* The addresses of the endpoint strings: those, and socket addresses.
AddrStrings ==
    BpStrings \cup
    { <<"1", ".", "2", ".", "3", ".", "4", ":", "8", "0">>,
      <<"1", "2", "7", ".", "0", ".", "0", ".", "1", ":", "9">>,
      <<"1", ".", "2", ".", "3", ".", "4">>,
      <<"a", " ", "b">>,
      <<" ">> }

\* The scheme tokens of the endpoint strings.
SchemeStrings ==
    { <<"u", "d", "p">>,
      <<"U", "D", "P">>,
      <<"U", "d", "p">>,
      <<"t", "c", "p">>,
      <<"t", "C", "P">>,
      <<"b", "p">>,
      <<"B", "P">>,
      <<"B", "p">>,
      <<"f", "t", "p">>,
      <<>>,
      <<"u", "d">>,
      <<"b", "p", "p">> }

\* The inputs of Endpoint::from_str: "<scheme> <address>", and strings without a
\* space.
EndpointStrings ==
    {sch \o <<" ">> \o a : sch \in SchemeStrings, a \in AddrStrings}
    \cup SchemeStrings \cup BpStrings

\* The Endpoint values given to Endpoint::to_string.
EndpointValues == {Endpoint(p, a) : p \in {"Udp", "Tcp", "Bp"}, a \in AddrStrings}

NoCall == [fn |-> "none", arg |-> <<>>, ret |-> <<>>]

\* str::to_lowercase, on ASCII
CharToLowercase(c) ==
    IF \E i \in DOMAIN UpperLetters : UpperLetters[i] = c
    THEN LowerLetters[CHOOSE i \in DOMAIN UpperLetters : UpperLetters[i] = c]
    ELSE c
ToLowercase(s) == [i \in 1..Len(s) |-> CharToLowercase(s[i])]

\* The place of the first c in s, 0 when there is none.
Find(s, c) ==
    IF \E i \in 1..Len(s) : s[i] = c
    THEN CHOOSE i \in 1..Len(s) : s[i] = c /\ \A j \in 1..(i - 1) : s[j] # c
    ELSE 0

\* input.splitn(2, ' ').collect()
Splitn2(input) ==
    LET i == Find(input, " ") IN
    IF i = 0 THEN <<input>>
    ELSE <<SubSeq(input, 1, i - 1), SubSeq(input, i + 1, Len(input))>>

ParseOk(e) == [ok |-> TRUE, val |-> e, err |-> "none"]
ParseErr(msg) == [ok |-> FALSE, val |-> Endpoint("None", <<>>), err |-> msg]

\* Mutant of FromStr: the input is split at every space and the second piece is
\* the address.
FromStrSplitsEverySpace(input) ==
    LET parts == Splitn2(input) IN
    IF Len(parts) < 2 THEN ParseErr("Missing address")
    ELSE LET scheme == ToLowercase(parts[1])
             addr == Splitn2(parts[2])[1]
         IN  IF scheme = <<"b", "p">> THEN ParseOk(Endpoint("Bp", addr))
             ELSE IF scheme = <<"t", "c", "p">> THEN ParseOk(Endpoint("Tcp", addr))
             ELSE IF scheme = <<"u", "d", "p">> THEN ParseOk(Endpoint("Udp", addr))
             ELSE ParseErr("Unsupported scheme")

\* Endpoint::from_str
FromStr(input) ==
    LET parts == Splitn2(input) IN
    IF Len(parts) < 2 THEN ParseErr("Missing address")
    ELSE LET scheme == ToLowercase(parts[1])
             addr == parts[2]
         IN  IF scheme = <<"b", "p">> THEN ParseOk(Endpoint("Bp", addr))
             ELSE IF scheme = <<"t", "c", "p">> THEN ParseOk(Endpoint("Tcp", addr))
             ELSE IF scheme = <<"u", "d", "p">> THEN ParseOk(Endpoint("Udp", addr))
             ELSE ParseErr("Unsupported scheme")

\* EndpointProto::to_string
ProtoToString(proto) ==
    CASE proto = "Udp" -> <<"u", "d", "p">>
      [] proto = "Tcp" -> <<"t", "c", "p">>
      [] proto = "Bp"  -> <<"b", "p">>

\* Endpoint::to_string: format!("{} {}", proto, endpoint)
EndpointToString(e) == ProtoToString(e.proto) \o <<" ">> \o e.endpoint

\* str::starts_with and what str::strip_prefix leaves
StartsWith(s, prefix) == Len(s) >= Len(prefix) /\ SubSeq(s, 1, Len(prefix)) = prefix
StripPrefix(s, prefix) == SubSeq(s, Len(prefix) + 1, Len(s))

\* s.split(c).collect()
RECURSIVE Split(_, _)
Split(s, c) ==
    LET i == Find(s, c) IN
    IF i = 0 THEN <<s>>
    ELSE <<SubSeq(s, 1, i - 1)>> \o Split(SubSeq(s, i + 1, Len(s)), c)

IsDigit(c) == \E i \in DOMAIN Digits : Digits[i] = c
DigitValue(c) == (CHOOSE i \in DOMAIN Digits : Digits[i] = c) - 1

\* A u32 is kept as two decimal limbs, hi * Limb + lo; u32::MAX = 42949 67295.
Limb == 100000
U32MaxHi == 42949
U32MaxLo == 67295

U32Ok(v) == [ok |-> TRUE, val |-> v, err |-> "none"]
U32Err(kind) == [ok |-> FALSE, val |-> [hi |-> 0, lo |-> 0], err |-> kind]

\* Mutant of Accumulate: the multiplication and the addition wrap at 2^32 instead
\* of being checked (the limbs are reduced, no digit string is rejected for size).
RECURSIVE AccumulateWrapping(_, _)
AccumulateWrapping(ds, acc) ==
    IF ds = <<>> THEN U32Ok(acc)
    ELSE IF ~IsDigit(Head(ds)) THEN U32Err("InvalidDigit")
    ELSE LET lo10 == acc.lo * 10 + DigitValue(Head(ds))
             lo == lo10 % Limb
             hi == acc.hi * 10 + lo10 \div Limb
         IN  AccumulateWrapping(Tail(ds), [hi |-> hi % U32MaxHi, lo |-> lo])

\* The digit loop of u32::from_str: result = result.checked_mul(10)
\* .checked_add(digit), an error at the first character that is no digit or that
\* takes the result past u32::MAX.
RECURSIVE Accumulate(_, _)
Accumulate(ds, acc) ==
    IF ds = <<>> THEN U32Ok(acc)
    ELSE IF ~IsDigit(Head(ds)) THEN U32Err("InvalidDigit")
    ELSE LET lo10 == acc.lo * 10 + DigitValue(Head(ds))
             lo == lo10 % Limb
             hi == acc.hi * 10 + lo10 \div Limb
         IN  IF hi > U32MaxHi \/ (hi = U32MaxHi /\ lo > U32MaxLo)
             THEN U32Err("PosOverflow")
             ELSE Accumulate(Tail(ds), [hi |-> hi, lo |-> lo])

\* parts[i].parse::<u32>(): empty is an error, a sign alone is an error, one
\* leading '+' is skipped, the rest must be digits.
ParseU32(tok) ==
    IF tok = <<>> THEN U32Err("Empty")
    ELSE IF tok = <<"+">> \/ tok = <<"-">> THEN U32Err("InvalidDigit")
    ELSE Accumulate(IF Head(tok) = "+" THEN Tail(tok) ELSE tok, [hi |-> 0, lo |-> 0])

SockAddrOk(node, service) ==
    [ok |-> TRUE, kind |-> "none", node_id |-> node, service_id |-> service]
SockAddrErr(kind) ==
    [ok |-> FALSE, kind |-> kind, node_id |-> [hi |-> 0, lo |-> 0],
     service_id |-> [hi |-> 0, lo |-> 0]]

\* create_bp_sockaddr_with_string
CreateBpSockaddrWithString(endpoint_string) ==
    IF endpoint_string = <<>> THEN SockAddrErr("InvalidInput")
    ELSE IF StartsWith(endpoint_string, <<"i", "p", "n", ":">>)
    THEN LET parts == Split(StripPrefix(endpoint_string, <<"i", "p", "n", ":">>), ".") IN
         IF Len(parts) # 2 THEN SockAddrErr("InvalidInput")
         ELSE LET node_id == ParseU32(parts[1])
                  service_id == ParseU32(parts[2])
              IN  IF ~node_id.ok THEN SockAddrErr("InvalidInput")
                  ELSE IF ~service_id.ok THEN SockAddrErr("InvalidInput")
                  ELSE SockAddrOk(node_id.val, service_id.val)
    ELSE IF StartsWith(endpoint_string, <<"d", "t", "n", ":">>)
    THEN SockAddrErr("Unsupported")
    ELSE SockAddrErr("InvalidInput")

\* The calls of the functions of endpoint.rs; none of them touches the engine.
FromStrCall ==
    /\ \E s \in EndpointStrings :
          call' = [fn |-> "from_str", arg |-> s, ret |-> FromStr(s)]
    /\ UNCHANGED <<observers, sockets, os, tasks, log, lockSt, panicked, nStarts, nSends>>

ToStringCall ==
    /\ \E e \in EndpointValues :
          call' = [fn |-> "to_string", arg |-> e, ret |-> EndpointToString(e)]
    /\ UNCHANGED <<observers, sockets, os, tasks, log, lockSt, panicked, nStarts, nSends>>

\* The record create_bp_sockaddr_with_string hands to SockAddr::new.
BP_SCHEME_IPN == 1
SizeOfSockAddrBp == 16         \* repr(C): u16, 2 bytes of padding, u32, two u32
SizeOfSockaddrStorage == 128   \* libc::sockaddr_storage

\* What a byte that was never written can hold.
UninitBytes == {0, 255}
Padding == {<<a, b>> : a \in UninitBytes, b \in UninitBytes}

\* v \div 256 and v % 256 of a number kept on two limbs.
DivMod256(v) ==
    LET x == (v.hi % 256) * Limb + v.lo
    IN  [q |-> [hi |-> v.hi \div 256, lo |-> x \div 256], r |-> x % 256]

\* The n bytes of an integer field in memory (the targets are little-endian).
RECURSIVE FieldBytes(_, _)
FieldBytes(v, n) ==
    IF n = 0 THEN <<>>
    ELSE <<DivMod256(v).r>> \o FieldBytes(DivMod256(v).q, n - 1)

Small(n) == [hi |-> 0, lo |-> n]

\* The bytes of the SockAddrBp value: bp_family, the padding that aligns bp_scheme
\* (never written by the struct expression), bp_scheme, node_id, service_id.
SockAddrBpBytes(node_id, service_id, pad) ==
    FieldBytes(Small(AF_BP), 2) \o pad \o FieldBytes(Small(BP_SCHEME_IPN), 4)
        \o FieldBytes(node_id, 4) \o FieldBytes(service_id, 4)

\* mem::zeroed() storage, then copy_nonoverlapping of size_of::<SockAddrBp>() bytes.
SockaddrStorage(bytes) ==
    [i \in 1..SizeOfSockaddrStorage |->
        IF i <= SizeOfSockAddrBp THEN bytes[i] ELSE 0]

\* The call of create_bp_sockaddr_with_string: ret is the parsed result, storage
\* and len are the SockAddr an Ok result holds.
CreateBpSockaddrCall ==
    /\ \E s \in BpStrings, pad \in Padding :
          LET r == CreateBpSockaddrWithString(s) IN
          call' = [fn |-> "create_bp_sockaddr_with_string", arg |-> s, ret |-> r,
                   storage |-> IF r.ok
                               THEN SockaddrStorage(
                                        SockAddrBpBytes(r.node_id, r.service_id, pad))
                               ELSE <<>>,
                   len |-> IF r.ok THEN SizeOfSockAddrBp ELSE 0]
    /\ UNCHANGED <<observers, sockets, os, tasks, log, lockSt, panicked, nStarts, nSends>>

SetTask(t, tk) == tasks' = [tasks EXCEPT ![t] = tk]

Init ==
    /\ observers = <<>>
    /\ sockets = [e \in AllEndpoints |-> NoSocket]
    /\ os = <<>>
    /\ tasks = <<>>
    /\ log = [o \in ObserverIds |-> <<>>]
    /\ lockSt = [o \in ObserverIds |-> "free"]
    /\ panicked = FALSE
    /\ nStarts = 0
    /\ nSends = 0
    /\ call = NoCall

\* ------------------------------------------------------------ the Engine API
\* Engine::add_observer
AddObserver ==
    /\ ~panicked
    /\ Len(observers) < MaxObservers
    /\ observers' = Append(observers, Len(observers) + 1)
    /\ UNCHANGED <<sockets, os, tasks, log, lockSt, panicked, nStarts, nSends, call>>

\* Mutant of CreateSocketAndStore: the socket is stored before it is duplicated,
\* so it stays in the cache when try_clone fails.
CreateSocketAndStoreBeforeDup(e, osOk, dupOk) ==
    LET made == GenericSocketNew(e, osOk)
        dup == IF made.ok THEN TryClone(made.sock, dupOk) ELSE ErrRes
    IN [res |-> IF made.ok /\ dup.ok THEN made ELSE [ErrRes EXCEPT !.created = made.created],
        cache |-> IF made.ok
                  THEN [sockets EXCEPT ![e] = made.sock]
                  ELSE sockets,
        fail |-> IF ~made.ok THEN "create" ELSE IF ~dup.ok THEN "dup" ELSE "none"]

\* Engine::create_socket_and_store: the socket for the listener; its duplicate goes
\* into the cache under the endpoint (HashMap::insert replaces an older entry).
CreateSocketAndStore(e, osOk, dupOk) ==
    LET made == GenericSocketNew(e, osOk)
        dup == IF made.ok THEN TryClone(made.sock, dupOk) ELSE ErrRes
    IN [res |-> IF made.ok /\ dup.ok THEN made ELSE [ErrRes EXCEPT !.created = made.created],
        cache |-> IF made.ok /\ dup.ok
                  THEN [sockets EXCEPT ![e] = dup.sock]
                  ELSE sockets,
        fail |-> IF ~made.ok THEN "create" ELSE IF ~dup.ok THEN "dup" ELSE "none"]

\* Engine::start_listener_async: socket and cache entry are made on the caller's
\* thread; the closure handed to spawn_blocking owns a copy of the observer list.
StartListenerAsync(e) ==
    /\ ~panicked
    /\ \E osOk \in BOOLEAN, dupOk \in BOOLEAN :
          LET r == CreateSocketAndStore(e, osOk, dupOk) IN
          /\ sockets' = r.cache
          /\ os' = OsAfter(r.res)
          /\ tasks' = Append(tasks,
                [NewTask("listener", "l_start", r.res, e) EXCEPT !.fail = r.fail])
    /\ nStarts' = nStarts + 1
    /\ UNCHANGED <<observers, log, lockSt, panicked, nSends, call>>

\* Mutant of TryReuseSocket: the protocol of the target is not looked at.
TryReuseSocketAnyProto(source_opt, dest, osOk, dupOk) ==
    IF source_opt # NoEndpoint /\ Cached(sockets, source_opt)
    THEN TryClone(sockets[source_opt], dupOk)
    ELSE GenericSocketNew(dest, osOk)

\* Engine::try_reuse_socket
TryReuseSocket(source_opt, dest, osOk, dupOk) ==
    IF /\ source_opt # NoEndpoint
       /\ dest.proto \in {"Bp", "Udp"}
       /\ Cached(sockets, source_opt)
    THEN TryClone(sockets[source_opt], dupOk)
    ELSE GenericSocketNew(dest, osOk)

\* Engine::send_async up to the spawn: the socket is resolved and the target is
\* converted with endpoint_to_sockaddr(..).unwrap() on the caller's thread.
SendAsync(source_opt, target, len) ==
    /\ ~panicked
    /\ nSends < MaxSends
    /\ \E osOk \in BOOLEAN, dupOk \in BOOLEAN :
          LET r == TryReuseSocket(source_opt, target, osOk, dupOk) IN
          /\ os' = OsAfter(r)
          /\ IF EndpointToSockaddrOk(target)
             THEN /\ tasks' = Append(tasks,
                       [NewTask("send", "s_start", r, target) EXCEPT
                           !.source = source_opt,
                           !.token = Tokens[nSends + 1],
                           !.bytes = len])
                  /\ UNCHANGED panicked
             ELSE /\ panicked' = TRUE
                  /\ UNCHANGED tasks
    /\ nSends' = nSends + 1
    /\ UNCHANGED <<observers, sockets, log, lockSt, nStarts, call>>

\* --------------------------------------------------- notify_all_observers
\* The observer the loop of task t stands at.
Current(t) == tasks[t].observers[tasks[t].ni]

\* The loop moves to the next observer; after the last one the call returns.
Advance(tk) == [tk EXCEPT !.ni = IF @ = Len(tk.observers) THEN 0 ELSE @ + 1]

\* A further observer lock may fail.
MayFail == Cardinality({o \in ObserverIds : lockSt[o] # "free"}) < MaxFaults

\* What observer o is called with: the k-th event emitted by task t.
Entry(t) == [t |-> t, k |-> Len(tasks[t].em)]

\* Mutant of LockFailed: a failed lock ends the whole call (return instead of
\* going on with the next observer).
LockFailedReturns(t) ==
    /\ lockSt[Current(t)] = "poisoned"
    /\ SetTask(t, [tasks[t] EXCEPT !.ni = 0])
    /\ UNCHANGED <<log, lockSt>>

\* obs.lock() returns Err (the lock is poisoned): the observer is skipped.
LockFailed(t) ==
    /\ lockSt[Current(t)] = "poisoned"
    /\ SetTask(t, Advance(tasks[t]))
    /\ UNCHANGED <<log, lockSt>>

\* Mutant of Deliver: the call is handed to a helper that runs on its own, so a
\* later event can reach the observer before an earlier one.
DeliverOutOfOrder(t) ==
    /\ lockSt[Current(t)] = "free"
    /\ log' = [log EXCEPT ![Current(t)] = <<Entry(t)>> \o @]
    /\ SetTask(t, Advance(tasks[t]))
    /\ UNCHANGED lockSt

\* Mutant of Deliver: each call of on_engine_event is made by a helper thread of
\* its own, so the call for a later event can be made before or after the call for
\* an earlier one.
DeliverByHelper(t) ==
    /\ lockSt[Current(t)] = "free"
    /\ \/ log' = [log EXCEPT ![Current(t)] = Append(@, Entry(t))]
       \/ log' = [log EXCEPT ![Current(t)] = <<Entry(t)>> \o @]
    /\ SetTask(t, Advance(tasks[t]))
    /\ UNCHANGED lockSt

\* obs.lock() returns the guard, on_engine_event(event.clone()) runs and returns,
\* the guard is dropped.
Deliver(t) ==
    /\ lockSt[Current(t)] = "free"
    /\ log' = [log EXCEPT ![Current(t)] = Append(@, Entry(t))]
    /\ SetTask(t, Advance(tasks[t]))
    /\ UNCHANGED lockSt

\* on_engine_event is entered and never returns: the guard is never dropped and the
\* loop of task t stays at this observer.
DeliverNoReturn(t) ==
    /\ MayFail
    /\ lockSt[Current(t)] = "free"
    /\ log' = [log EXCEPT ![Current(t)] = Append(@, Entry(t))]
    /\ lockSt' = [lockSt EXCEPT ![Current(t)] = "held"]
    /\ UNCHANGED tasks

\* One iteration of the for loop of notify_all_observers in task t.  While the lock
\* is held by someone else, obs.lock() blocks: no step.
NotifyStep(t) ==
    /\ tasks[t].ni > 0
    /\ \/ LockFailed(t)
       \/ Deliver(t)
       \/ DeliverNoReturn(t)
    /\ UNCHANGED <<observers, sockets, os, panicked, nStarts, nSends, call>>

\* Another holder of the observer's Arc<Mutex<..>> panics with the lock taken.
PoisonLock(o) ==
    /\ MayFail
    /\ o \in 1..Len(observers)
    /\ lockSt[o] = "free"
    /\ lockSt' = [lockSt EXCEPT ![o] = "poisoned"]
    /\ UNCHANGED <<observers, sockets, os, tasks, log, panicked, nStarts, nSends, call>>

\* Another holder of the observer's Arc<Mutex<..>> takes the lock and keeps it.
HoldLock(o) ==
    /\ MayFail
    /\ o \in 1..Len(observers)
    /\ lockSt[o] = "free"
    /\ lockSt' = [lockSt EXCEPT ![o] = "held"]
    /\ UNCHANGED <<observers, sockets, os, tasks, log, panicked, nStarts, nSends, call>>

\* ------------------------------------------------------- the listener task
SetOs(fd, field, v) == os' = [os EXCEPT ![fd][field] = v]

\* bind(fd, address of e) succeeded.
Bind(fd, e) == os' = [os EXCEPT ![fd].bound = "bound", ![fd].addr = e]

\* The local address the OS gives a socket that sends without having been bound.
EphemeralAddr == "127.0.0.1:49152"

\* The source address of what is sent on fd.
LocalAddr(fd) == IF os[fd].bound = "bound" THEN os[fd].addr.endpoint ELSE EphemeralAddr

\* The sockets of this host that are bound to the address of e.
BoundTo(e) == {fd \in 1..Len(os) : os[fd].bound = "bound" /\ os[fd].addr = e}

\* Mutant of ListenerStart: the listening flag is not looked at.
ListenerStartIgnoresFlag(t) ==
    /\ Running(t, "l_start")
    /\ LET tk == tasks[t] IN
       IF ~tk.res.ok
       THEN /\ SetTask(t, Emit(tk, SocketError(tk.endpoint, tk.fail), "done"))
            /\ UNCHANGED os
       ELSE \E opts \in {"ok", "nonblocking_failed", "reuse_failed"} :
            /\ SetOs(tk.res.sock.fd, "nonblocking", opts # "nonblocking_failed")
            /\ IF opts = "ok"
               THEN SetTask(t, [tk EXCEPT !.pc = "l_bind"])
               ELSE SetTask(t, Emit([tk EXCEPT !.fail = "opts"],
                                    SocketError(tk.res.sock.endpoint, opts), "done"))
    /\ UNCHANGED <<observers, sockets, log, lockSt, panicked, nStarts, nSends, call>>

\* The closure of start_listener_async runs: an Err of create_socket_and_store is
\* reported; otherwise start_listener begins with the option calls of
\* prepare_socket (set_nonblocking, set_reuse_address, set_reuse_port).
ListenerStart(t) ==
    /\ Running(t, "l_start")
    /\ LET tk == tasks[t] IN
       IF ~tk.res.ok
       THEN /\ SetTask(t, Emit(tk, SocketError(tk.endpoint, tk.fail), "done"))
            /\ UNCHANGED os
       ELSE IF tk.res.sock.listening
       THEN /\ SetTask(t, [tk EXCEPT !.pc = "l_ret"])
            /\ UNCHANGED os
       ELSE \E opts \in {"ok", "nonblocking_failed", "reuse_failed"} :
            /\ SetOs(tk.res.sock.fd, "nonblocking", opts # "nonblocking_failed")
            /\ IF opts = "ok"
               THEN SetTask(t, [tk EXCEPT !.pc = "l_bind"])
               ELSE SetTask(t, Emit([tk EXCEPT !.fail = "opts"],
                                    SocketError(tk.res.sock.endpoint, opts), "done"))
    /\ UNCHANGED <<observers, sockets, log, lockSt, panicked, nStarts, nSends, call>>

\* The owner of a GenericSocket whose start_listener has returned with the
\* listening flag set calls start_listener on it once more.
StartListenerAgain(t) ==
    /\ tasks[t].kind = "listener" /\ tasks[t].pc = "done" /\ tasks[t].ni = 0
    /\ tasks[t].res.ok /\ tasks[t].res.sock.listening
    /\ Cardinality({u \in 1..Len(tasks) : tasks[u].kind = "restart"}) < MaxRestarts
    /\ tasks' = Append(tasks,
          [NewTask("restart", "l_start", tasks[t].res, tasks[t].endpoint) EXCEPT
              !.observers = tasks[t].observers])
    /\ UNCHANGED <<observers, sockets, os, log, lockSt, panicked, nStarts, nSends, call>>

\* What follows bind in start_listener: listen(128)? for Tcp, then try_clone()?.
AfterBind(proto) ==
    IF proto = "Tcp" THEN {"ok", "listen_failed", "clone_failed"}
    ELSE {"ok", "clone_failed"}

\* Mutant of ListenerBind: the result of prepare_socket is dropped, so after a
\* failed bind the listener goes on into its loop.
ListenerBindIgnoresFailure(t) ==
    /\ Running(t, "l_bind")
    /\ LET tk == tasks[t]
           sock == tk.res.sock
           loop == IF sock.endpoint.proto = "Tcp" THEN "l_accept" ELSE "l_recv"
       IN \/ /\ SetTask(t, [tk EXCEPT !.fail = "bind", !.pc = loop,
                                       !.res.sock.listening = TRUE])
             /\ UNCHANGED os
          \/ /\ os[sock.fd].bound = "unbound"
             /\ Bind(sock.fd, sock.endpoint)
             /\ SetTask(t, [tk EXCEPT !.pc = loop, !.res.sock.listening = TRUE])
    /\ UNCHANGED <<observers, sockets, log, lockSt, panicked, nStarts, nSends, call>>

\* prepare_socket's bind, then self.listening = true and the calls before the loop.
\* The OS binds a socket once: a socket that already has a local address (bound, or
\* given one by an earlier send-to) is refused.
ListenerBind(t) ==
    /\ Running(t, "l_bind")
    /\ LET tk == tasks[t]
           sock == tk.res.sock
       IN \/ /\ SetTask(t, Emit([tk EXCEPT !.fail = "bind"],
                                SocketError(sock.endpoint, "bind_failed"), "done"))
             /\ UNCHANGED os
          \/ /\ os[sock.fd].bound = "unbound"
             /\ Bind(sock.fd, sock.endpoint)
             /\ \E r \in AfterBind(sock.endpoint.proto) :
                   LET tl == [tk EXCEPT !.res.sock.listening = TRUE] IN
                   IF r = "ok"
                   THEN SetTask(t, [tl EXCEPT !.pc =
                            IF sock.endpoint.proto = "Tcp" THEN "l_accept" ELSE "l_recv"])
                   ELSE SetTask(t, Emit([tl EXCEPT !.fail = r],
                                        SocketError(sock.endpoint, r), "done"))
    /\ UNCHANGED <<observers, sockets, log, lockSt, panicked, nStarts, nSends, call>>

\* Mutant of ListenerRecv: would-block is not told apart from the other errors.
ListenerRecvWouldBlockFails(t) ==
    /\ Running(t, "l_recv")
    /\ LET tk == tasks[t]
           sock == tk.res.sock
       IN \/ /\ tk.n < MaxLoop
             /\ \E size \in {0} \cup DataLens, a \in PeerAddrs :
                   SetTask(t, Emit([tk EXCEPT !.n = @ + 1,
                                             !.senders = Append(@, [addr |-> a, t |-> 0]),
                                             !.reads = Append(@, size)],
                       Received(size, Endpoint(sock.endpoint.proto, "unsupported")),
                       "l_recv"))
             /\ UNCHANGED os
          \/ /\ tk.n < MaxLoop
             /\ os[sock.fd].inbox # <<>>
             /\ LET d == Head(os[sock.fd].inbox) IN
                SetTask(t, Emit([tk EXCEPT !.n = @ + 1,
                                          !.senders = Append(@, [addr |-> d.from, t |-> d.t]),
                                          !.reads = Append(@, d.len)],
                    Received(d.len, Endpoint(sock.endpoint.proto, "unsupported")),
                    "l_recv"))
             /\ os' = [os EXCEPT ![sock.fd].inbox = Tail(@)]
          \/ /\ os[sock.fd].nonblocking
             /\ Len(tk.wb) < MaxWouldBlock
             /\ SetTask(t, Emit([tk EXCEPT !.wb = Append(@, Len(tk.em))],
                   ReceiveFailed(tk.res.sock.endpoint, "UDP/BP read error"), "l_recv"))
             /\ UNCHANGED os
          \/ /\ tk.n < MaxLoop
             /\ SetTask(t, Emit([tk EXCEPT !.n = @ + 1],
                   ReceiveFailed(tk.res.sock.endpoint, "UDP/BP read error"), "l_recv"))
             /\ UNCHANGED os
    /\ UNCHANGED <<observers, sockets, log, lockSt, panicked, nStarts, nSends, call>>

\* Mutant of ListenerRecv: a read of zero bytes is taken for the peer's close, as on
\* a stream: Closed is reported and the loop ends.
ListenerRecvZeroIsClose(t) ==
    /\ Running(t, "l_recv")
    /\ LET tk == tasks[t]
           sock == tk.res.sock
       IN \/ /\ tk.n < MaxLoop
             /\ \E size \in {0} \cup DataLens, a \in PeerAddrs :
                   SetTask(t, Emit([tk EXCEPT !.n = @ + 1,
                                             !.senders = Append(@, [addr |-> a, t |-> 0]),
                                             !.reads = Append(@, size)],
                       IF size = 0 THEN Closed(NoEndpoint)
                       ELSE Received(size, Endpoint(sock.endpoint.proto, "unsupported")),
                       IF size = 0 THEN "done" ELSE "l_recv"))
             /\ UNCHANGED os
          \/ /\ tk.n < MaxLoop
             /\ os[sock.fd].inbox # <<>>
             /\ LET d == Head(os[sock.fd].inbox) IN
                SetTask(t, Emit([tk EXCEPT !.n = @ + 1,
                                          !.senders = Append(@, [addr |-> d.from, t |-> d.t]),
                                          !.reads = Append(@, d.len)],
                    Received(d.len, Endpoint(sock.endpoint.proto, "unsupported")),
                    "l_recv"))
             /\ os' = [os EXCEPT ![sock.fd].inbox = Tail(@)]
          \/ /\ os[sock.fd].nonblocking
             /\ Len(tk.wb) < MaxWouldBlock
             /\ SetTask(t, [tk EXCEPT !.wb = Append(@, Len(tk.em))])
             /\ UNCHANGED os
          \/ /\ tk.n < MaxLoop
             /\ SetTask(t, Emit([tk EXCEPT !.n = @ + 1],
                   ReceiveFailed(tk.res.sock.endpoint, "UDP/BP read error"), "l_recv"))
             /\ UNCHANGED os
    /\ UNCHANGED <<observers, sockets, log, lockSt, panicked, nStarts, nSends, call>>

\* One iteration of the Udp/Bp loop of start_listener: socket.read(&mut buffer)
\* returns a datagram of a remote peer or one sent on this host to the socket's
\* address (senders: who sent each datagram read, and which send task if any;
\* reads: the size each successful read returned).
\* Would-block (only a non-blocking socket returns it) sleeps and goes round again.
ListenerRecv(t) ==
    /\ Running(t, "l_recv")
    /\ LET tk == tasks[t]
           sock == tk.res.sock
       IN \/ /\ tk.n < MaxLoop
             /\ \E size \in {0} \cup DataLens, a \in PeerAddrs :
                   SetTask(t, Emit([tk EXCEPT !.n = @ + 1,
                                             !.senders = Append(@, [addr |-> a, t |-> 0]),
                                             !.reads = Append(@, size)],
                       Received(size, Endpoint(sock.endpoint.proto, "unsupported")),
                       "l_recv"))
             /\ UNCHANGED os
          \/ /\ tk.n < MaxLoop
             /\ os[sock.fd].inbox # <<>>
             /\ LET d == Head(os[sock.fd].inbox) IN
                SetTask(t, Emit([tk EXCEPT !.n = @ + 1,
                                          !.senders = Append(@, [addr |-> d.from, t |-> d.t]),
                                          !.reads = Append(@, d.len)],
                    Received(d.len, Endpoint(sock.endpoint.proto, "unsupported")),
                    "l_recv"))
             /\ os' = [os EXCEPT ![sock.fd].inbox = Tail(@)]
          \/ /\ os[sock.fd].nonblocking
             /\ Len(tk.wb) < MaxWouldBlock
             /\ SetTask(t, [tk EXCEPT !.wb = Append(@, Len(tk.em))])
             /\ UNCHANGED os
          \/ /\ tk.n < MaxLoop
             /\ SetTask(t, Emit([tk EXCEPT !.n = @ + 1],
                   ReceiveFailed(tk.res.sock.endpoint, "UDP/BP read error"), "l_recv"))
             /\ UNCHANGED os
    /\ UNCHANGED <<observers, sockets, log, lockSt, panicked, nStarts, nSends, call>>

\* Mutant of ListenerAccept: the error arm brings the process down, ending every
\* task.
ListenerAcceptAborts(t) ==
    /\ Running(t, "l_accept")
    /\ LET tk == tasks[t]
           sock == tk.res.sock
       IN \/ /\ tk.n < MaxLoop
             /\ \E a \in PeerAddrs :
                   SetTask(t, Emit([tk EXCEPT !.n = @ + 1, !.peer = Endpoint("Tcp", a)],
                       Established(Endpoint("Tcp", a)), "l_spawn"))
          \/ /\ tk.n < MaxLoop
             /\ SetTask(t, Emit([tk EXCEPT !.n = @ + 1, !.failed = @ \cup {"Interrupted"}],
                                Closed(NoEndpoint), "l_accept"))
          \/ /\ os[sock.fd].nonblocking
             /\ Len(tk.wb) < MaxWouldBlock
             /\ SetTask(t, [tk EXCEPT !.wb = Append(@, Len(tk.em))])
          \/ tasks' = [u \in 1..Len(tasks) |->
                          IF u = t
                          THEN Emit([tk EXCEPT !.failed = @ \cup {"accept"}],
                                    SocketError(sock.endpoint, "accept_failed"), "l_ret")
                          ELSE [tasks[u] EXCEPT !.pc = "done"]]
    /\ UNCHANGED <<observers, sockets, os, log, lockSt, panicked, nStarts, nSends, call>>

\* One iteration of the Tcp loop of start_listener: socket.accept().  Interrupted
\* is reported as Closed{remote: None} and the loop goes on; would-block sleeps and
\* goes round again; any other error is reported as SocketError and breaks.
ListenerAccept(t) ==
    /\ Running(t, "l_accept")
    /\ LET tk == tasks[t]
           sock == tk.res.sock
       IN \/ /\ tk.n < MaxLoop
             /\ \E a \in PeerAddrs :
                   SetTask(t, Emit([tk EXCEPT !.n = @ + 1, !.peer = Endpoint("Tcp", a)],
                       Established(Endpoint("Tcp", a)), "l_spawn"))
          \/ /\ tk.n < MaxLoop
             /\ SetTask(t, Emit([tk EXCEPT !.n = @ + 1, !.failed = @ \cup {"Interrupted"}],
                                Closed(NoEndpoint), "l_accept"))
          \/ /\ os[sock.fd].nonblocking
             /\ Len(tk.wb) < MaxWouldBlock
             /\ SetTask(t, [tk EXCEPT !.wb = Append(@, Len(tk.em))])
          \/ SetTask(t, Emit([tk EXCEPT !.failed = @ \cup {"accept"}],
                              SocketError(sock.endpoint, "accept_failed"), "l_ret"))
    /\ UNCHANGED <<observers, sockets, os, log, lockSt, panicked, nStarts, nSends, call>>

\* TOKIO_RUNTIME.spawn(handle_tcp_connection(..)) after the Established event.
ListenerSpawn(t) ==
    /\ Running(t, "l_spawn")
    /\ tasks' = Append([tasks EXCEPT ![t].pc = "l_accept"],
          [NewTask("reader", "r_peer", ErrRes, tasks[t].res.sock.endpoint) EXCEPT
              !.observers = tasks[t].observers,
              !.peer = tasks[t].peer])
    /\ UNCHANGED <<observers, sockets, os, log, lockSt, panicked, nStarts, nSends, call>>

\* start_listener returned Ok(()): the closure of start_listener_async reports
\* ListenerStarted for Tcp; a direct caller of start_listener has its result.
ListenerReturn(t) ==
    /\ Running(t, "l_ret")
    /\ LET tk == tasks[t] IN
       IF tk.kind = "listener" /\ tk.res.sock.endpoint.proto = "Tcp"
       THEN SetTask(t, Emit(tk, ListenerStarted(tk.res.sock.endpoint), "done"))
       ELSE SetTask(t, [tk EXCEPT !.pc = "done"])
    /\ UNCHANGED <<observers, sockets, os, log, lockSt, panicked, nStarts, nSends, call>>

\* ----------------------------------------------------- handle_tcp_connection
\* stream.peer_addr(), then let mut buffer = [0; 1024].
ReaderPeer(t) ==
    /\ Running(t, "r_peer")
    /\ LET tk == tasks[t] IN
       \/ SetTask(t, Emit([tk EXCEPT !.failed = @ \cup {"peer_addr"}],
                          SocketError(tk.endpoint, "Failed to get peer address"),
                          "done"))
       \/ SetTask(t, [tk EXCEPT !.pc = "r_read",
                                !.buffer = [i \in 1..MaxRead |-> 0]])
    /\ UNCHANGED <<observers, sockets, os, log, lockSt, panicked, nStarts, nSends, call>>

\* stream.read(&mut buffer) returning size bytes: the next bytes of the peer's
\* stream overwrite the front of the buffer, the rest of the buffer stays.
ReadInto(buffer, pos, size) ==
    [i \in 1..Len(buffer) |-> IF i <= size THEN PeerStream[pos + i] ELSE buffer[i]]

\* How many bytes a read can return: at least one, at most the buffer, at most
\* what the peer has still to send.
ReadSizes(tk) ==
    {size \in 1..Len(tk.buffer) : tk.pos + size <= Len(PeerStream)}

\* Mutant of ReaderRead: the zero-length read is reported and the loop goes on.
ReaderReadGoesOnAfterClose(t) ==
    /\ Running(t, "r_read")
    /\ LET tk == tasks[t] IN
       \/ /\ Len(tk.em) < Len(PeerStream) + 2
          /\ SetTask(t, Emit(tk, Closed(tk.peer), "r_read"))
       \/ \E size \in ReadSizes(tk) :
             LET buf == ReadInto(tk.buffer, tk.pos, size) IN
             SetTask(t, Emit([tk EXCEPT !.n = @ + 1, !.buffer = buf, !.pos = @ + size,
                                       !.reads = Append(@, SubSeq(buf, 1, size))],
                             ReceivedData(SubSeq(buf, 1, size), tk.peer), "r_read"))
       \/ SetTask(t, Emit(tk, ReceiveFailed(tk.endpoint, tk.peer.endpoint), "done"))
    /\ UNCHANGED <<observers, sockets, os, log, lockSt, panicked, nStarts, nSends, call>>

\* Mutant of ReaderRead: the event carries the whole buffer instead of buffer[..size].
ReaderReadWholeBuffer(t) ==
    /\ Running(t, "r_read")
    /\ LET tk == tasks[t] IN
       \/ SetTask(t, Emit(tk, Closed(tk.peer), "done"))
       \/ \E size \in ReadSizes(tk) :
             LET buf == ReadInto(tk.buffer, tk.pos, size) IN
             SetTask(t, Emit([tk EXCEPT !.n = @ + 1, !.buffer = buf, !.pos = @ + size,
                                       !.reads = Append(@, SubSeq(buf, 1, size))],
                             ReceivedData(buf, tk.peer), "r_read"))
       \/ SetTask(t, Emit(tk, ReceiveFailed(tk.endpoint, tk.peer.endpoint), "done"))
    /\ UNCHANGED <<observers, sockets, os, log, lockSt, panicked, nStarts, nSends, call>>

\* One iteration of the read loop: stream.read(&mut buffer).  Ok(0) is the peer's
\* close, Ok(size) is forwarded as buffer[..size], an error ends the reader.
ReaderRead(t) ==
    /\ Running(t, "r_read")
    /\ LET tk == tasks[t] IN
       \/ SetTask(t, Emit(tk, Closed(tk.peer), "done"))
       \/ \E size \in ReadSizes(tk) :
             LET buf == ReadInto(tk.buffer, tk.pos, size) IN
             SetTask(t, Emit([tk EXCEPT !.n = @ + 1, !.buffer = buf, !.pos = @ + size,
                                       !.reads = Append(@, SubSeq(buf, 1, size))],
                             ReceivedData(SubSeq(buf, 1, size), tk.peer), "r_read"))
       \/ SetTask(t, Emit(tk, ReceiveFailed(tk.endpoint, tk.peer.endpoint), "done"))
    /\ UNCHANGED <<observers, sockets, os, log, lockSt, panicked, nStarts, nSends, call>>

\* --------------------------------------------------------- the send task
\* The async block of send_async begins: an Err of try_reuse_socket is reported and
\* the task returns; otherwise Sending is emitted.
SendStart(t) ==
    /\ Running(t, "s_start")
    /\ LET tk == tasks[t] IN
       IF ~tk.res.ok
       THEN SetTask(t, Emit(tk, SocketError(tk.endpoint, "no socket"), "done"))
       ELSE SetTask(t, Emit(tk, Sending(tk.token, tk.endpoint, tk.bytes), "s_path"))
    /\ UNCHANGED <<observers, sockets, os, log, lockSt, panicked, nStarts, nSends, call>>

\* The send path is chosen by match generic_socket.endpoint.proto.
SendPathOf(sock) == IF sock.endpoint.proto \in {"Bp", "Udp"} THEN "sendto" ELSE "connect"

\* How send_to can end on the socket: would-block only on a non-blocking socket.
SendToResults(fd) ==
    {"ok", "error"} \cup (IF os[fd].nonblocking THEN {"would block"} ELSE {})

\* Bp | Udp arm: one socket.send_to(data, sock_addr).  A send-to on a socket
\* without a local address makes the OS give it an ephemeral one (auto; a failed
\* send-to may or may not have got that far).  A datagram that was sent is queued
\* at a socket of this host bound to the target address, if there is one.
SendTo(t) ==
    LET tk == tasks[t]
        fd == tk.res.sock.fd
        to == BoundTo(tk.endpoint)
        dgram == [from |-> LocalAddr(fd), len |-> tk.bytes, t |-> t]
    IN \E r \in SendToResults(fd), auto \in BOOLEAN :
       /\ (r = "ok" => auto)
       /\ LET sent == [os EXCEPT ![fd].bound =
                          IF @ = "unbound" /\ auto THEN "ephemeral" ELSE @]
          IN IF r = "ok" /\ to # {}
             THEN \E rcv \in to : os' = [sent EXCEPT ![rcv].inbox = Append(@, dgram)]
             ELSE os' = sent
       /\ SetTask(t, Emit([tk EXCEPT !.path = "sendto", !.boundAtSend = os[fd].bound,
                                    !.n = @ + 1,
                                    !.failed = IF r = "ok" THEN @ ELSE @ \cup {"send_to"}],
             IF r = "ok" THEN Sent(tk.token, tk.endpoint, tk.bytes)
             ELSE SendFailed(tk.endpoint, tk.token, r),
             "done"))

\* ConnectionFailureReason by err.kind()
FailureReason(kind) ==
    IF kind = "ConnectionRefused" THEN "Refused"
    ELSE IF kind = "TimedOut" THEN "Timeout"
    ELSE "Other"

\* Mutant of Connect: the else is missing, a failed connect is reported and the
\* write follows all the same.
ConnectFallsThrough(t) ==
    LET tk == tasks[t] IN
    /\ UNCHANGED os
    /\ \E r \in {"ok", "ConnectionRefused", "TimedOut", "NetworkUnreachable"} :
          SetTask(t, Emit([tk EXCEPT !.path = "connect",
                                   !.fail = IF r = "ok" THEN @ ELSE r,
                                   !.failed = IF r = "ok" THEN @ ELSE @ \cup {"connect"}],
              IF r = "ok" THEN Established(tk.endpoint)
              ELSE ConnectionFailed(tk.endpoint, FailureReason(r), tk.token),
              "s_write"))

\* Tcp arm: socket.connect(sock_addr).
Connect(t) ==
    LET tk == tasks[t] IN
    /\ UNCHANGED os
    /\ \E r \in {"ok", "ConnectionRefused", "TimedOut", "NetworkUnreachable"} :
          SetTask(t, Emit([tk EXCEPT !.path = "connect",
                                   !.fail = IF r = "ok" THEN @ ELSE r,
                                   !.failed = IF r = "ok" THEN @ ELSE @ \cup {"connect"}],
              IF r = "ok" THEN Established(tk.endpoint)
              ELSE ConnectionFailed(tk.endpoint, FailureReason(r), tk.token),
              IF r = "ok" THEN "s_write" ELSE "done"))

SendPath(t) ==
    /\ Running(t, "s_path")
    /\ IF SendPathOf(tasks[t].res.sock) = "sendto" THEN SendTo(t) ELSE Connect(t)
    /\ UNCHANGED <<observers, sockets, log, lockSt, panicked, nStarts, nSends, call>>

\* socket.write_all(data)
SendWrite(t) ==
    /\ Running(t, "s_write")
    /\ LET tk == tasks[t] IN
       \/ SetTask(t, Emit(tk, Sent(tk.token, tk.endpoint, tk.bytes), "s_flush"))
       \/ SetTask(t, Emit([tk EXCEPT !.failed = @ \cup {"write"}],
                           SendFailed(tk.endpoint, tk.token, "write"), "s_flush"))
    /\ UNCHANGED <<observers, sockets, os, log, lockSt, panicked, nStarts, nSends, call>>

\* socket.flush()
SendFlush(t) ==
    /\ Running(t, "s_flush")
    /\ LET tk == tasks[t] IN
       \/ SetTask(t, [tk EXCEPT !.pc = "s_shutdown"])
       \/ SetTask(t, Emit([tk EXCEPT !.failed = @ \cup {"flush"}],
                           SendFailed(tk.endpoint, tk.token, "flush"), "s_shutdown"))
    /\ UNCHANGED <<observers, sockets, os, log, lockSt, panicked, nStarts, nSends, call>>

\* Mutant of SendShutdown: a successful shutdown is not reported.
SendShutdownSilent(t) ==
    /\ Running(t, "s_shutdown")
    /\ LET tk == tasks[t] IN
       \/ SetTask(t, [tk EXCEPT !.pc = "done"])
       \/ SetTask(t, Emit([tk EXCEPT !.failed = @ \cup {"shutdown"}],
                           SendFailed(tk.endpoint, tk.token, "Shutdown failed"), "done"))
    /\ UNCHANGED <<observers, sockets, os, log, lockSt, panicked, nStarts, nSends, call>>

\* socket.shutdown(Shutdown::Both)
SendShutdown(t) ==
    /\ Running(t, "s_shutdown")
    /\ LET tk == tasks[t] IN
       \/ SetTask(t, Emit(tk, Closed(tk.res.sock.endpoint), "done"))
       \/ SetTask(t, Emit([tk EXCEPT !.failed = @ \cup {"shutdown"}],
                           SendFailed(tk.endpoint, tk.token, "Shutdown failed"), "done"))
    /\ UNCHANGED <<observers, sockets, os, log, lockSt, panicked, nStarts, nSends, call>>

\* ------------------------------------------------------------ TcpSender::send
\* TcpSender::send(addr, data, token, endpoint, observers) is called: the future
\* owns the observer list it was given and runs as a task of its own.
TcpSenderSend(endpoint, len) ==
    /\ ~panicked
    /\ nSends < MaxSends
    /\ endpoint.proto = "Tcp"
    /\ tasks' = Append(tasks,
          [NewTask("tcp_sender", "ts_connect", ErrRes, endpoint) EXCEPT
              !.token = Tokens[nSends + 1],
              !.bytes = len])
    /\ nSends' = nSends + 1
    /\ UNCHANGED <<observers, sockets, os, log, lockSt, panicked, nStarts, call>>

\* TcpStream::connect(&addr): Established on Ok; on Err one ConnectionFailed whose
\* token field is e.to_string(), the text of the error.
TcpSenderConnect(t) ==
    /\ Running(t, "ts_connect")
    /\ LET tk == tasks[t] IN
       \E r \in {"ok", "ConnectionRefused", "TimedOut", "NetworkUnreachable"} :
          SetTask(t, Emit([tk EXCEPT !.path = "connect",
                                   !.fail = IF r = "ok" THEN @ ELSE r,
                                   !.failed = IF r = "ok" THEN @ ELSE @ \cup {"connect"}],
              IF r = "ok" THEN Established(tk.endpoint)
              ELSE ConnectionFailed(tk.endpoint, FailureReason(r), r),
              IF r = "ok" THEN "ts_write" ELSE "done"))
    /\ UNCHANGED <<observers, sockets, os, log, lockSt, panicked, nStarts, nSends, call>>

\* stream.write_all(&data): Sent on Ok; on Err SendFailed and nothing more.
TcpSenderWrite(t) ==
    /\ Running(t, "ts_write")
    /\ LET tk == tasks[t] IN
       \/ SetTask(t, Emit(tk, Sent(tk.token, tk.endpoint, tk.bytes), "ts_shutdown"))
       \/ SetTask(t, Emit([tk EXCEPT !.failed = @ \cup {"write"}],
                           SendFailed(tk.endpoint, tk.token, "write"), "done"))
    /\ UNCHANGED <<observers, sockets, os, log, lockSt, panicked, nStarts, nSends, call>>

\* let _ = stream.shutdown().await: the result is dropped, Closed follows.
TcpSenderShutdown(t) ==
    /\ Running(t, "ts_shutdown")
    /\ LET tk == tasks[t] IN
       \E ok \in BOOLEAN :
          SetTask(t, Emit([tk EXCEPT !.failed = IF ok THEN @ ELSE @ \cup {"shutdown"}],
                          Closed(tk.endpoint), "done"))
    /\ UNCHANGED <<observers, sockets, os, log, lockSt, panicked, nStarts, nSends, call>>

\* ------------------------------------------------- TcpListenerHandler::start
\* TcpListenerHandler::start(addr, observers) is called: the future owns the
\* observer list it was given and runs as a task of its own.
TcpListenerHandlerStart(addr) ==
    /\ ~panicked
    /\ nStarts < MaxStarts
    /\ tasks' = Append(tasks, NewTask("tcp_handler", "th_bind", ErrRes, Endpoint("Tcp", addr)))
    /\ nStarts' = nStarts + 1
    /\ UNCHANGED <<observers, sockets, os, log, lockSt, panicked, nSends, call>>

\* TcpListener::bind(&addr).await?: an error is returned to the caller without an
\* event; on success the listener's socket is bound and ListenerStarted is emitted.
TcpHandlerBind(t) ==
    /\ Running(t, "th_bind")
    /\ LET tk == tasks[t] IN
       \/ /\ SetTask(t, [tk EXCEPT !.fail = "bind", !.pc = "done"])
          /\ UNCHANGED os
       \/ /\ os' = Append(os, [bound |-> "bound", nonblocking |-> TRUE,
                               addr |-> tk.endpoint, inbox |-> <<>>,
                               params |-> SocketParams(tk.endpoint)])
          /\ SetTask(t, Emit(tk, ListenerStarted(tk.endpoint), "th_accept"))
    /\ UNCHANGED <<observers, sockets, log, lockSt, panicked, nStarts, nSends, call>>

\* One iteration of the loop of TcpListenerHandler::start: listener.accept().await.
\* Ok gives Established{remote: Endpoint::Tcp(peer_addr)}; Err gives SocketError
\* and the function returns.
TcpHandlerAccept(t) ==
    /\ Running(t, "th_accept")
    /\ LET tk == tasks[t] IN
       \/ /\ tk.n < MaxLoop
          /\ \E a \in PeerAddrs :
                SetTask(t, Emit([tk EXCEPT !.n = @ + 1, !.peer = Endpoint("Tcp", a)],
                    Established(Endpoint("Tcp", a)), "th_spawn"))
       \/ SetTask(t, Emit([tk EXCEPT !.failed = @ \cup {"accept"}],
                           SocketError(tk.endpoint, "accept_failed"), "done"))
    /\ UNCHANGED <<observers, sockets, os, log, lockSt, panicked, nStarts, nSends, call>>

\* tokio::spawn(handle_tcp_stream(stream, obs_clone, endpoint_clone)): the task is
\* given the listener's endpoint; its buffer is [0u8; TCP_BUFFER_SIZE].
TcpHandlerSpawn(t) ==
    /\ Running(t, "th_spawn")
    /\ tasks' = Append([tasks EXCEPT ![t].pc = "th_accept"],
          [NewTask("stream_handler", "hs_read", ErrRes, tasks[t].endpoint) EXCEPT
              !.observers = tasks[t].observers,
              !.peer = tasks[t].peer,
              !.buffer = [i \in 1..MaxRead |-> 0]])
    /\ UNCHANGED <<observers, sockets, os, log, lockSt, panicked, nStarts, nSends, call>>

\* One iteration of the loop of handle_tcp_stream: stream.read(&mut buffer).await.
\* Closed, Received and ReceiveFailed all carry the endpoint the task was given.
HandleTcpStream(t) ==
    /\ Running(t, "hs_read")
    /\ LET tk == tasks[t] IN
       \/ SetTask(t, Emit(tk, Closed(tk.endpoint), "done"))
       \/ \E size \in ReadSizes(tk) :
             LET buf == ReadInto(tk.buffer, tk.pos, size) IN
             SetTask(t, Emit([tk EXCEPT !.n = @ + 1, !.buffer = buf, !.pos = @ + size,
                                       !.reads = Append(@, SubSeq(buf, 1, size))],
                             ReceivedData(SubSeq(buf, 1, size), tk.endpoint), "hs_read"))
       \/ SetTask(t, Emit(tk, ReceiveFailed(tk.endpoint, "read error"), "done"))
    /\ UNCHANGED <<observers, sockets, os, log, lockSt, panicked, nStarts, nSends, call>>

\* ------------------------------------------------------- next-state relations
\* The fan-out loops of the tasks and the failures of observer locks.
ObserverSteps ==
    \/ \E t \in 1..Len(tasks) : NotifyStep(t)
    \/ \E o \in ObserverIds : PoisonLock(o) \/ HoldLock(o)

\* The steps of listener tasks and of the connection readers they spawn.
ListenerSteps ==
    \E t \in 1..Len(tasks) :
        \/ ListenerStart(t)
        \/ ListenerBind(t)
        \/ ListenerRecv(t)
        \/ ListenerAccept(t)
        \/ ListenerSpawn(t)
        \/ ListenerReturn(t)
        \/ ReaderPeer(t)
        \/ ReaderRead(t)

\* The steps of send tasks.
SenderSteps ==
    \E t \in 1..Len(tasks) :
        \/ SendStart(t)
        \/ SendPath(t)
        \/ SendWrite(t)
        \/ SendFlush(t)
        \/ SendShutdown(t)

\* The steps of TcpSender::send.
TcpSenderSteps ==
    \E t \in 1..Len(tasks) :
        \/ TcpSenderConnect(t)
        \/ TcpSenderWrite(t)
        \/ TcpSenderShutdown(t)

\* The steps of TcpListenerHandler::start and of the stream tasks it spawns.
TcpHandlerSteps ==
    \E t \in 1..Len(tasks) :
        \/ TcpHandlerBind(t)
        \/ TcpHandlerAccept(t)
        \/ TcpHandlerSpawn(t)
        \/ HandleTcpStream(t)

TcpHandlerCall == \E a \in SocketAddrs : TcpListenerHandlerStart(a)

TcpSenderCall == \E d \in TargetInputs, len \in DataLens : TcpSenderSend(d, len)

StartCall == nStarts < MaxStarts /\ \E e \in ListenInputs : StartListenerAsync(e)
SendCall ==
    \E s \in SourceInputs, d \in TargetInputs, len \in DataLens : SendAsync(s, d, len)

\* The whole engine: any caller, any observers.
Next ==
    \/ AddObserver
    \/ StartCall
    \/ SendCall
    \/ ObserverSteps
    \/ ListenerSteps
    \/ SenderSteps

Spec == Init /\ [][Next]_vars

\* A caller that registers observers and starts listeners, and sends nothing.
NextListener == AddObserver \/ StartCall \/ ObserverSteps \/ ListenerSteps
SpecListener == Init /\ [][NextListener]_vars

\* A caller that registers observers and sends, and starts no listener.
NextSender == AddObserver \/ SendCall \/ ObserverSteps \/ SenderSteps
SpecSender == Init /\ [][NextSender]_vars

\* The runtime runs every spawned send task: a step of the task that stays
\* possible is taken.  Nothing obliges the caller to call, nor a lock to fail.
SendTaskStep(t) ==
    /\ t \in 1..Len(tasks)
    /\ \/ SendStart(t)
       \/ SendPath(t)
       \/ SendWrite(t)
       \/ SendFlush(t)
       \/ SendShutdown(t)
       \/ NotifyStep(t)
SpecSenderFair == SpecSender /\ \A t \in 1..MaxSends : WF_vars(SendTaskStep(t))

\* A caller that registers observers and sends on a stream, through the engine or
\* through TcpSender::send.
NextStream ==
    \/ AddObserver
    \/ \E src \in SourceInputs, d \in TargetInputs, len \in DataLens :
          d.proto = "Tcp" /\ SendAsync(src, d, len)
    \/ TcpSenderCall
    \/ ObserverSteps
    \/ SenderSteps
    \/ TcpSenderSteps
SpecStream == Init /\ [][NextStream]_vars

\* A caller that starts listeners and sends, and registers no observer.
NextReuse == StartCall \/ SendCall \/ ListenerSteps \/ SenderSteps
SpecReuse == Init /\ [][NextReuse]_vars

\* A caller that starts several listeners, registers no observer and sends
\* nothing.
StartCalls == nStarts < MaxListeners /\ \E e \in ListenInputs : StartListenerAsync(e)
NextListeners == StartCalls \/ ListenerSteps
SpecListeners == Init /\ [][NextListeners]_vars

\* A caller that registers its observers, starts a datagram listener on S and one
\* on L, and then sends from S to L; every observer callback returns and no lock is poisoned.
LoopbackS == Endpoint("Udp", "127.0.0.1:9002")
LoopbackL == Endpoint("Udp", "127.0.0.1:9001")
LoopbackCall ==
    \/ nStarts = 0 /\ AddObserver
    \/ nStarts = 0 /\ StartListenerAsync(LoopbackS)
    \/ nStarts > 0 /\ nStarts < MaxListeners /\ StartListenerAsync(LoopbackL)
    \/ nStarts = MaxListeners /\ \E len \in DataLens : SendAsync(LoopbackS, LoopbackL, len)
DeliverSteps ==
    \E t \in 1..Len(tasks) :
        /\ tasks[t].ni > 0
        /\ Deliver(t)
        /\ UNCHANGED <<observers, sockets, os, panicked, nStarts, nSends, call>>
NextLoopback == LoopbackCall \/ DeliverSteps \/ ListenerSteps \/ SenderSteps
SpecLoopback == Init /\ [][NextLoopback]_vars

\* A caller that starts listeners, and the owner of a listening socket who
\* starts it again; no observer is registered.
RestartCall == \E t \in 1..Len(tasks) : StartListenerAgain(t)
NextRestart == StartCall \/ RestartCall \/ ListenerSteps
SpecRestart == Init /\ [][NextRestart]_vars

\* A caller that registers its observers, then starts listeners and sends; the
\* tasks run up to their first call of an observer.
CacheCall ==
    \/ nStarts = 0 /\ nSends = 0 /\ AddObserver
    \/ StartCall
    \/ SendCall
NextCache == CacheCall \/ ListenerSteps \/ SenderSteps
SpecCache == Init /\ [][NextCache]_vars

\* A caller of the functions of endpoint.rs.
NextEndpoint == FromStrCall \/ ToStringCall \/ CreateBpSockaddrCall
SpecEndpoint == Init /\ [][NextEndpoint]_vars

\* A caller that registers observers and runs TcpListenerHandler::start.
NextHandler == AddObserver \/ TcpHandlerCall \/ ObserverSteps \/ TcpHandlerSteps
SpecHandler == Init /\ [][NextHandler]_vars

\* ------------------------------------------------------------- properties
TaskIds == 1..Len(tasks)

\* The calls of o's on_engine_event made by task t, in call order.
Rcvd(o, t) == SelectSeq(log[o], LAMBDA x : x.t = t)

\* How many calls of o's on_engine_event carried the k-th event of task t.
Copies(o, t, k) == Len(SelectSeq(log[o], LAMBDA x : x.t = t /\ x.k = k))

\* The number of events of task t whose loop has gone past position p of its list.
Passed(t, p) ==
    IF tasks[t].ni = 0 THEN Len(tasks[t].em)
    ELSE Len(tasks[t].em) - 1 + (IF p < tasks[t].ni THEN 1 ELSE 0)

\* C1: for every send request, the first event any observer receives of it is
\* Sending{token, target, len(data)}, whether or not a socket could be acquired.
C1_SendingIsFirst ==
    \A t \in TaskIds : \A o \in ObserverIds :
        (tasks[t].kind = "send" /\ Rcvd(o, t) # <<>>) =>
            tasks[t].em[Rcvd(o, t)[1].k] =
                Sending(tasks[t].token, tasks[t].endpoint, tasks[t].bytes)

\* C2: every event whose fan-out has returned was delivered exactly once to every
\* observer that add_observer had registered before the event was emitted (an
\* observer whose lock is poisoned is left aside), also when the observer was
\* registered after the emitting listener was started.
C2_EveryRegisteredObserverGetsEvent ==
    \A t \in TaskIds : \A k \in 1..Len(tasks[t].em) : \A o \in ObserverIds :
        ( /\ k < Len(tasks[t].em) \/ tasks[t].ni = 0
          /\ o <= tasks[t].regAt[k]
          /\ lockSt[o] = "free" )
        => Copies(o, t, k) = 1

\* C3 as claimed: every observer of a task's list has received, in emission order,
\* once each, all the events of the task that its fan-out loop has passed.
C3_NoneLostNoneMisordered ==
    \A t \in TaskIds : \A p \in 1..Len(tasks[t].observers) :
        LET o == tasks[t].observers[p] IN
        lockSt[o] # "held" =>
            Rcvd(o, t) = [i \in 1..Passed(t, p) |-> [t |-> t, k |-> i]]

\* C3 as amended: every observer has received, in emission order and once each, a
\* prefix of the task's events; an observer whose lock is free has received all
\* the events that the fan-out loop has passed, and only an observer whose lock is
\* poisoned can lack some of them.
C3_OrderedPrefixPerTask ==
    \A t \in TaskIds : \A p \in 1..Len(tasks[t].observers) :
        LET o == tasks[t].observers[p]
            got == Rcvd(o, t)
        IN /\ got = [i \in 1..Len(got) |-> [t |-> t, k |-> i]]
           /\ Len(got) <= Passed(t, p) + (IF lockSt[o] = "held" THEN 1 ELSE 0)
           /\ lockSt[o] = "free" => Len(got) = Passed(t, p)
           /\ lockSt[o] = "held" => Len(got) >= Passed(t, p)

\* C3 witness: while a listener and a connection reader both emit, an observer with
\* a free lock has all events of both and a poisoned one lacks one.
C3_Witness ==
    \E t \in TaskIds, u \in TaskIds :
        /\ tasks[t].kind = "listener" /\ tasks[u].kind = "reader"
        /\ tasks[t].ni = 0 /\ tasks[u].ni = 0
        /\ Len(tasks[t].em) >= 2 /\ Len(tasks[u].em) >= 1
        /\ Len(tasks[u].observers) = 2
        /\ lockSt[1] = "poisoned" /\ Len(Rcvd(1, t)) = 1
        /\ lockSt[2] = "free"
        /\ Len(Rcvd(2, t)) = Len(tasks[t].em)
        /\ Len(Rcvd(2, u)) = Len(tasks[u].em)

\* C4: in notify_all_observers a poisoned lock makes the loop skip that observer
\* only: the step past it changes nothing but the loop index, which moves to the
\* next observer; at all times the observers with a free lock that the loop has
\* passed hold exactly one copy of the event and those it has not reached hold
\* none (delivery in registration order).
C4_OnlyPoisonedObserverSkipped ==
    /\ [][\A t \in TaskIds :
            ( /\ tasks[t].ni > 0
              /\ lockSt[tasks[t].observers[tasks[t].ni]] = "poisoned"
              /\ tasks'[t] # tasks[t] )
            => /\ log' = log
               /\ tasks'[t] = [tasks[t] EXCEPT !.ni =
                     IF @ = Len(tasks[t].observers) THEN 0 ELSE @ + 1]]_vars
    /\ [](\A t \in TaskIds : \A p \in 1..Len(tasks[t].observers) :
            LET o == tasks[t].observers[p]
                k == Len(tasks[t].em)
            IN (k > 0 /\ lockSt[o] = "free") =>
                 Copies(o, t, k) = IF tasks[t].ni = 0 \/ p < tasks[t].ni THEN 1 ELSE 0)

\* C4 witness: the first observer's lock is poisoned, it has nothing of the task,
\* the second observer has the event and the task has gone on to its end.
C4_Witness ==
    \E t \in TaskIds :
        /\ Len(tasks[t].observers) = 2
        /\ lockSt[1] = "poisoned" /\ lockSt[2] = "free"
        /\ Rcvd(1, t) = <<>>
        /\ Len(tasks[t].em) >= 1
        /\ Len(Rcvd(2, t)) = Len(tasks[t].em)
        /\ tasks[t].pc = "done" /\ tasks[t].ni = 0

\* C5: an observer that never returns, or whose lock is never released, does not
\* keep another observer from receiving the event: no fan-out loop waits at such an
\* observer while an observer behind it, with a free lock, still lacks the event.
C5_HeldLockStallsNobody ==
    \A t \in TaskIds : \A q \in 1..Len(tasks[t].observers) :
        ~ ( /\ tasks[t].ni > 0
            /\ lockSt[tasks[t].observers[tasks[t].ni]] = "held"
            /\ q > tasks[t].ni
            /\ lockSt[tasks[t].observers[q]] = "free" )

\* C6: a listener start whose socket creation, duplication or bind (or another
\* step before the loop) failed emits exactly one event, SocketError{endpoint = e},
\* and never ListenerStarted, Established or Received; once the task is over every
\* observer of its list with a free lock holds that one event once.
C6_FailedStartOneSocketError ==
    \A t \in TaskIds :
        (tasks[t].kind = "listener" /\ tasks[t].fail # "none") =>
            /\ \/ tasks[t].pc = "l_start" /\ tasks[t].em = <<>>
               \/ /\ tasks[t].pc = "done"
                  /\ Len(tasks[t].em) = 1
                  /\ tasks[t].em[1].type = "SocketError"
                  /\ tasks[t].em[1].ep = tasks[t].endpoint
            /\ (tasks[t].pc = "done" /\ tasks[t].ni = 0) =>
                  \A p \in 1..Len(tasks[t].observers) :
                      lockSt[tasks[t].observers[p]] = "free" =>
                          Rcvd(tasks[t].observers[p], t) = <<[t |-> t, k |-> 1]>>

\* C6 witness: a bind failure, reported to two observers.
C6_Witness ==
    \E t \in TaskIds :
        /\ tasks[t].kind = "listener" /\ tasks[t].fail = "bind"
        /\ tasks[t].pc = "done" /\ tasks[t].ni = 0
        /\ Len(Rcvd(1, t)) = 1 /\ Len(Rcvd(2, t)) = 1

\* C7: send_async returns to its caller for every target endpoint: the caller never
\* panics inside the call.
C7_SendAsyncReturns == ~panicked

\* The condition under which C8 says the cached socket is used.
ReuseCase(t) ==
    /\ tasks[t].source # NoEndpoint
    /\ tasks[t].endpoint.proto \in {"Udp", "Bp"}
    /\ Cached(tasks[t].cacheAt, tasks[t].source)

\* C8: the socket of a send request is a duplicate of the cache entry of the source
\* exactly when a source is given, the target is Udp or Bp and the cache has the
\* source; otherwise it is a new socket made from the target: a handle the OS did
\* not have before, not in the cache, not listening, unbound when first used.
C8_ReuseExactlyWhenCached ==
    \A t \in TaskIds :
        (tasks[t].kind = "send" /\ tasks[t].res.ok) =>
            IF ReuseCase(t)
            THEN /\ tasks[t].res.sock = tasks[t].cacheAt[tasks[t].source]
                 /\ tasks[t].res.sock.fd <= tasks[t].osLenAt
            ELSE /\ tasks[t].res.sock.fd = tasks[t].osLenAt + 1
                 /\ \A e \in AllEndpoints : sockets[e].fd # tasks[t].res.sock.fd
                 /\ tasks[t].res.sock.endpoint = tasks[t].endpoint
                 /\ ~tasks[t].res.sock.listening
                 /\ tasks[t].path = "sendto" => tasks[t].boundAtSend = "unbound"

\* C8 witness: one request sent on the duplicate of the cached socket.
C8_Witness ==
    \E t \in TaskIds :
        /\ tasks[t].kind = "send" /\ tasks[t].res.ok /\ ReuseCase(t)
        /\ tasks[t].path = "sendto"

\* C9: the send path a request runs is the one of its target's protocol: send-to
\* for Udp and Bp, connect-write-close for Tcp.
C9_PathMatchesTarget ==
    \A t \in TaskIds :
        (tasks[t].kind = "send" /\ tasks[t].path # "none") =>
            tasks[t].path =
                IF tasks[t].endpoint.proto \in {"Udp", "Bp"} THEN "sendto" ELSE "connect"

\* C10: send-to on a reused cached socket happens only once the listener task has
\* bound the socket.
C10_ReusedSocketIsBound ==
    \A t \in TaskIds :
        ( /\ tasks[t].kind = "send" /\ tasks[t].res.ok /\ ReuseCase(t)
          /\ tasks[t].path = "sendto" )
        => tasks[t].boundAtSend = "bound"

\* The events of a stream send on which every call succeeds.
StreamEvents(tk) ==
    << Sending(tk.token, tk.endpoint, tk.bytes), Established(tk.endpoint),
       Sent(tk.token, tk.endpoint, tk.bytes), Closed(tk.endpoint) >>

\* What observer o must hold of task t once n events of t have gone out to it.
InOrder(t, n) == [i \in 1..n |-> [t |-> t, k |-> i]]

\* C11: a stream send whose connect, write, flush and shutdown all succeed emits
\* Sending, Established{remote = target}, Sent{token}, Closed{remote = target}, in
\* this order and once each (TcpSender::send, which is handed the request after
\* Sending, emits the last three), and once the request is over every observer
\* whose lock is free has received them in this order, once each.
C11_StreamSuccessOrder ==
    \A t \in TaskIds :
        LET tk == tasks[t]
            want == IF tk.kind = "send" THEN StreamEvents(tk)
                    ELSE SubSeq(StreamEvents(tk), 2, 4)
        IN ( /\ tk.kind \in {"send", "tcp_sender"}
             /\ tk.kind = "send" => tk.res.ok /\ tk.endpoint.proto = "Tcp"
             /\ tk.failed = {} )
           => /\ Len(tk.em) <= Len(want)
              /\ tk.em = SubSeq(want, 1, Len(tk.em))
              /\ tk.pc = "done" => tk.em = want
              /\ (tk.pc = "done" /\ tk.ni = 0) =>
                    \A p \in 1..Len(tk.observers) :
                        lockSt[tk.observers[p]] = "free" =>
                            Rcvd(tk.observers[p], t) = InOrder(t, Len(want))

\* C11 witness: an engine stream send is over, all four events are with both
\* observers.
C11_Witness ==
    \E t \in TaskIds :
        /\ tasks[t].kind = "send" /\ tasks[t].pc = "done" /\ tasks[t].ni = 0
        /\ tasks[t].failed = {} /\ tasks[t].path = "connect"
        /\ Len(tasks[t].em) = 4
        /\ Rcvd(1, t) = InOrder(t, 4) /\ Rcvd(2, t) = InOrder(t, 4)

\* C12: after a successful connect, a stream send whose write failed still goes
\* through flush and shutdown: when the request is over and its shutdown did not
\* fail, its last event is Closed{remote}.
C12_WriteFailureKeepsCleanup ==
    \A t \in TaskIds :
        LET tk == tasks[t] IN
        ( /\ tk.kind \in {"send", "tcp_sender"}
          /\ tk.path = "connect" /\ tk.pc = "done"
          /\ "connect" \notin tk.failed
          /\ "write" \in tk.failed
          /\ "shutdown" \notin tk.failed )
        => tk.em[Len(tk.em)].type = "Closed"

\* C13: a stream send whose connect failed emits exactly one ConnectionFailed, with
\* reason Refused when (and only when) the error is connection-refused, and no
\* Established, Sent, SendFailed or Closed; the request is over after it.
C13_ConnectFailureOnce ==
    \A t \in TaskIds :
        LET tk == tasks[t]
            own == IF tk.kind = "send"
                   THEN <<Sending(tk.token, tk.endpoint, tk.bytes)>> ELSE <<>>
        IN ( /\ tk.kind \in {"send", "tcp_sender"}
             /\ "connect" \in tk.failed )
           => /\ tk.pc = "done"
              /\ Len(tk.em) = Len(own) + 1
              /\ SubSeq(tk.em, 1, Len(own)) = own
              /\ LET ev == tk.em[Len(tk.em)] IN
                    /\ ev.type = "ConnectionFailed"
                    /\ ev.ep = tk.endpoint
                    /\ ev.reason \in {"Refused", "Timeout", "Other"}
                    /\ ev.reason = "Refused" <=> tk.fail = "ConnectionRefused"
              /\ tk.ni = 0 =>
                    \A p \in 1..Len(tk.observers) :
                        lockSt[tk.observers[p]] = "free" =>
                            Rcvd(tk.observers[p], t) = InOrder(t, Len(tk.em))

\* C13 witness: a refused connect of an engine send, reported once to both observers.
C13_Witness ==
    \E t \in TaskIds :
        /\ tasks[t].kind = "send" /\ tasks[t].failed = {"connect"}
        /\ tasks[t].pc = "done" /\ tasks[t].ni = 0
        /\ tasks[t].fail = "ConnectionRefused"
        /\ tasks[t].em[2].reason = "Refused"
        /\ Copies(1, t, 2) = 1 /\ Copies(2, t, 2) = 1

\* C14: every Sending, Sent, SendFailed and ConnectionFailed event of a send request
\* carries the token the caller passed for that request.
C14_EventsCarryCallerToken ==
    \A t \in TaskIds : \A k \in 1..Len(tasks[t].em) :
        ( /\ tasks[t].kind \in {"send", "tcp_sender"}
          /\ tasks[t].em[k].type \in {"Sending", "Sent", "SendFailed", "ConnectionFailed"} )
        => tasks[t].em[k].token = tasks[t].token

\* The events of task t that are of one of the given types.
OfTypes(t, types) == SelectSeq(tasks[t].em, LAMBDA ev : ev.type \in types)

\* C15: a Udp or Bp send whose socket was acquired makes one send-to call and emits
\* exactly one of Sent{token} and SendFailed{token}, and never Established, Closed
\* or ConnectionFailed.
C15_DatagramSendOneOutcome ==
    \A t \in TaskIds :
        LET tk == tasks[t] IN
        ( /\ tk.kind = "send" /\ tk.res.ok
          /\ tk.endpoint.proto \in {"Udp", "Bp"} )
        => /\ tk.n <= 1
           /\ OfTypes(t, {"Established", "Closed", "ConnectionFailed"}) = <<>>
           /\ Len(OfTypes(t, {"Sent", "SendFailed"})) <= 1
           /\ tk.pc = "done" =>
                 /\ tk.n = 1
                 /\ Len(OfTypes(t, {"Sent", "SendFailed"})) = 1
                 /\ OfTypes(t, {"Sent", "SendFailed"})[1].token = tk.token

\* C16: in the Udp and Bp listener loops a receive error other than would-block is
\* reported by one ReceiveFailed and ends the loop: ReceiveFailed is the last event
\* of the listener and the listener is no longer at its receive call.
C16_ReceiveErrorEndsLoop ==
    \A t \in TaskIds : \A k \in 1..Len(tasks[t].em) :
        ( /\ tasks[t].kind = "listener"
          /\ tasks[t].em[k].type = "ReceiveFailed" )
        => /\ k = Len(tasks[t].em)
           /\ tasks[t].pc # "l_recv"

\* C17: a would-block result in a listener loop (accept or receive) changes nothing
\* but the record of it: no event is emitted or delivered, the socket, the cache
\* and the listener stay as they are, and the listener stands at the same call
\* again.
C17_WouldBlockIsSilentRetry ==
    [][\A t \in TaskIds :
          tasks'[t].wb # tasks[t].wb =>
              /\ tasks'[t] = [tasks[t] EXCEPT !.wb = Append(@, Len(tasks[t].em))]
              /\ tasks[t].pc \in {"l_recv", "l_accept"} /\ tasks[t].ni = 0
              /\ log' = log /\ os' = os /\ sockets' = sockets]_vars

\* C17 witness: a listener had a would-block before any event, retried, and the
\* retry received a datagram that both observers hold.
C17_Witness ==
    \E t \in TaskIds :
        /\ tasks[t].kind = "listener" /\ tasks[t].wb = <<0>>
        /\ tasks[t].pc = "l_recv" /\ tasks[t].ni = 0
        /\ Len(tasks[t].em) = 1 /\ tasks[t].em[1].type = "Received"
        /\ Copies(1, t, 1) = 1 /\ Copies(2, t, 1) = 1

\* C18: a would-block result of send-to is not reported: no SendFailed of a send
\* request carries it.
C18_WouldBlockNeverSurfaced ==
    \A t \in TaskIds : \A k \in 1..Len(tasks[t].em) :
        ( /\ tasks[t].kind = "send"
          /\ tasks[t].em[k].type = "SendFailed" )
        => tasks[t].em[k].reason # "would block"

\* C19: a listener whose bind succeeded has emitted exactly one ListenerStarted by
\* the time it stands in its loop, and ListenerStarted is the first of its events.
C19_ListenerStartedFirst ==
    \A t \in TaskIds :
        LET tk == tasks[t] IN
        ( /\ tk.kind = "listener" /\ tk.res.ok
          /\ tk.res.sock.listening )
        => /\ tk.em # <<>> => tk.em[1] = ListenerStarted(tk.endpoint)
           /\ Len(OfTypes(t, {"ListenerStarted"})) <= 1
           /\ tk.pc \in {"l_recv", "l_accept", "l_spawn"} =>
                 Len(OfTypes(t, {"ListenerStarted"})) = 1

\* C20: in the Tcp listener an accept error other than would-block is reported by
\* one SocketError{endpoint = listener endpoint} and by no other kind of event, and
\* the listener no longer accepts.
C20_AcceptErrorEndsListener ==
    \A t \in TaskIds :
        LET tk == tasks[t] IN
        ( /\ tk.kind = "listener"
          /\ tk.failed \cap {"accept", "Interrupted"} # {} )
        => /\ tk.pc \notin {"l_accept", "l_spawn"}
           /\ OfTypes(t, {"SocketError"}) = <<SocketError(tk.endpoint, "accept_failed")>>
           /\ OfTypes(t, {"Closed"}) = <<>>

\* The events of connection reader t are Received events, one per read, followed
\* by at most one event of the given kinds, which is there once the reader has
\* ended; and the observer calls made with the last event come after the calls
\* made with the Received events, for every observer that is called with it.
ReaderShape(t, terminals) ==
    LET tk == tasks[t]
        n == Len(tk.reads)
    IN  /\ Len(tk.em) \in {n, n + 1}
        /\ \A i \in 1..Len(tk.em) : i <= n => tk.em[i].type = "Received"
        /\ tk.pc = "done" <=> Len(tk.em) = n + 1
        /\ Len(tk.em) = n + 1 => tk.em[n + 1] \in terminals
        /\ \A o \in ObserverIds : \A i \in 1..Len(log[o]) :
              (log[o][i].t = t /\ log[o][i].k = n + 1)
              => \A k \in 1..n : \E j \in 1..(i - 1) : log[o][j] = [t |-> t, k |-> k]

\* Closed{remote = the peer} and ReceiveFailed{listener endpoint, peer address}.
ReadTerminals(tk) ==
    {Closed(tk.peer), ReceiveFailed(tk.endpoint, tk.peer.endpoint)}

\* C21 as stated: for each accepted connection, the reader delivers zero or more
\* Received events followed by exactly one terminal event, Closed{remote} on a
\* zero-length read or ReceiveFailed on a read error, and nothing after it; Closed
\* is delivered only after the Received events of all data read.
C21_ReceivedThenClosedOrFailed ==
    \A t \in TaskIds :
        tasks[t].kind = "reader" => ReaderShape(t, ReadTerminals(tasks[t]))

\* C21, amended: as above for a reader that obtained the peer address of its
\* connection; a reader that could not obtain it reads nothing and delivers no
\* Received and exactly one SocketError{endpoint = listener endpoint}.
C21_ReceivedThenOneTerminal ==
    \A t \in TaskIds :
        LET tk == tasks[t] IN
        tk.kind = "reader" =>
            IF "peer_addr" \in tk.failed
            THEN /\ tk.reads = <<>>
                 /\ ReaderShape(t, {SocketError(tk.endpoint, "Failed to get peer address")})
            ELSE ReaderShape(t, ReadTerminals(tk))

\* A reader read twice, then read zero bytes, and an observer was called with the
\* two Received events and then with Closed.
C21_Witness ==
    \E t \in TaskIds : \E o \in ObserverIds :
        /\ tasks[t].kind = "reader"
        /\ tasks[t].pc = "done"
        /\ Len(tasks[t].reads) = 2
        /\ tasks[t].em[3] = Closed(tasks[t].peer)
        /\ Rcvd(o, t) = InOrder(t, 3)

\* C22: every Received event of the datagram listener carries from = the address
\* of the sender of that datagram, never a placeholder or the listener's own
\* endpoint.
C22_ReceivedFromIsSender ==
    \A t \in TaskIds :
        LET tk == tasks[t]
            rc == OfTypes(t, {"Received"})
        IN  (tk.kind = "listener" /\ tk.endpoint.proto \in {"Udp", "Bp"})
            => /\ Len(rc) = Len(tk.senders)
               /\ \A i \in 1..Len(rc) :
                     rc[i].ep = Endpoint(tk.endpoint.proto, tk.senders[i].addr)

\* The data of the Received events of task t that observer o was called with, in
\* call order.
RcvdData(o, t) ==
    LET got == SelectSeq(Rcvd(o, t), LAMBDA x : tasks[t].em[x.k].type = "Received")
    IN  [i \in 1..Len(got) |-> tasks[t].em[got[i].k].data]

RECURSIVE Concat(_)
Concat(seqs) == IF seqs = <<>> THEN <<>> ELSE Head(seqs) \o Concat(Tail(seqs))

\* How many reads of reader t have had their event taken past position p of the
\* observer list.
ReadsPassed(t, p) ==
    IF Passed(t, p) < Len(tasks[t].reads) THEN Passed(t, p) ELSE Len(tasks[t].reads)

\* C23 as stated: for one stream connection, the data of the Received events seen
\* by an observer, concatenated in delivery order, are the bytes returned by the
\* successive reads in read order: each non-zero read yields exactly one Received
\* with exactly the bytes of that read, none lost, duplicated, reordered or stale.
C23_ObserverSeesEveryRead ==
    \A t \in TaskIds : \A p \in 1..Len(tasks[t].observers) :
        LET o == tasks[t].observers[p] IN
        (tasks[t].kind = "reader" /\ lockSt[o] # "held")
        => RcvdData(o, t) = SubSeq(tasks[t].reads, 1, ReadsPassed(t, p))

\* C23, amended: every read of 1..buffer-size bytes yields one Received event with
\* exactly those bytes; what an observer has seen is, chunk by chunk and so also
\* concatenated, the reads in read order from the first one on, all of them for an
\* observer whose lock is free, and short of some only for an observer whose lock
\* is poisoned.
C23_ObserverSeesReadsInOrder ==
    \A t \in TaskIds :
        LET tk == tasks[t]
            rc == OfTypes(t, {"Received"})
        IN  tk.kind = "reader" =>
            /\ Len(rc) = Len(tk.reads)
            /\ \A i \in 1..Len(rc) :
                  /\ rc[i].data = tk.reads[i]
                  /\ rc[i].bytes = Len(tk.reads[i])
                  /\ Len(rc[i].data) \in 1..MaxRead
            /\ Concat(tk.reads) = SubSeq(PeerStream, 1, tk.pos)
            /\ \A p \in 1..Len(tk.observers) :
                  LET o == tk.observers[p]
                      seen == RcvdData(o, t)
                  IN /\ Len(seen) <= Len(tk.reads)
                     /\ seen = SubSeq(tk.reads, 1, Len(seen))
                     /\ Concat(seen) = SubSeq(PeerStream, 1, Len(Concat(seen)))
                     /\ lockSt[o] = "free" => Len(seen) = ReadsPassed(t, p)
                     /\ Len(seen) < ReadsPassed(t, p) => lockSt[o] = "poisoned"

\* A reader read two bytes and then one byte into its two-byte buffer, which still
\* holds a byte of the first read, and an observer saw <<1, 2>> and then <<3>>.
C23_Witness ==
    \E t \in TaskIds : \E o \in ObserverIds :
        /\ tasks[t].kind = "reader"
        /\ tasks[t].reads = << <<1, 2>>, <<3>> >>
        /\ tasks[t].buffer = <<3, 2>>
        /\ RcvdData(o, t) = << <<1, 2>>, <<3>> >>

\* Listener t takes the error arm of its accept or receive loop in this step.
LoopErrorStep(t) ==
    /\ tasks[t].kind = "listener"
    /\ tasks[t].pc \in {"l_accept", "l_recv"} /\ tasks[t].ni = 0
    /\ Len(tasks'[t].em) = Len(tasks[t].em) + 1
    /\ tasks'[t].em[Len(tasks'[t].em)].type \in {"SocketError", "ReceiveFailed"}

\* C24: an accept or receive error in one listener touches that listener only:
\* the step leaves every other listener and every connection reader as it was,
\* with its socket and its next step, and the process is not brought down.
C24_LoopErrorStopsNobodyElse ==
    [][\A t \in TaskIds :
          LoopErrorStep(t) =>
              /\ Len(tasks') = Len(tasks)
              /\ \A u \in TaskIds \ {t} : tasks'[u] = tasks[u]
              /\ os' = os /\ sockets' = sockets
              /\ ~panicked /\ ~panicked']_vars

\* A stream listener has ended on an accept error, the reader of the connection
\* it had accepted has read since it was spawned and still reads, and the other
\* listener is in its loop and has received a datagram.
C24_Witness ==
    \E t \in TaskIds, u \in TaskIds, v \in TaskIds :
        /\ tasks[t].kind = "listener" /\ "accept" \in tasks[t].failed
        /\ tasks[t].pc = "done"
        /\ tasks[u].kind = "reader" /\ tasks[u].pc = "r_read"
        /\ Len(tasks[u].reads) = 1
        /\ v # t /\ tasks[v].kind = "listener" /\ tasks[v].pc = "l_recv"
        /\ Len(OfTypes(v, {"Received"})) = 1

\* Where in observer o's calls the k-th event of task t is (0: nowhere).
CallAt(o, t, k) ==
    IF \E i \in 1..Len(log[o]) : log[o][i] = [t |-> t, k |-> k]
    THEN CHOOSE i \in 1..Len(log[o]) : log[o][i] = [t |-> t, k |-> k]
    ELSE 0

\* C25: with a datagram listener on L and a send from the bound source S to L
\* with token t, every observer receives Sending{t} first, then the listener's
\* Received of that datagram, then Sent{t}, in every interleaving of the send
\* task and the listener task.
C25_SendingReceivedSent ==
    \A s \in TaskIds, l \in TaskIds :
        (tasks[s].kind = "send" /\ tasks[l].kind = "listener") =>
        \A i \in 1..Len(tasks[l].senders) :
            (tasks[l].senders[i] = [addr |-> LoopbackS.endpoint, t |-> s]) =>
            \A o \in ObserverIds :
                LET sending  == CallAt(o, s, 1)
                    sent     == CallAt(o, s, 2)
                    received == CallAt(o, l, i)
                IN  /\ tasks[l].em[i].type = "Received"
                    /\ tasks[s].em[1] = Sending(tasks[s].token, LoopbackL, tasks[s].bytes)
                    /\ received > 0 => (sending > 0 /\ sending < received)
                    /\ sent > 0 => (sending > 0 /\ sending < sent)
                    /\ (received > 0 /\ sent > 0) => received < sent

\* The scheme token of s is udp, tcp or bp in some letter case, and a space
\* follows it.
KnownScheme(s) ==
    /\ Find(s, " ") > 0
    /\ ToLowercase(SubSeq(s, 1, Find(s, " ") - 1))
          \in {<<"u", "d", "p">>, <<"t", "c", "p">>, <<"b", "p">>}

\* s with the letters of its scheme token lower-cased.
SchemeLowered(s) ==
    [j \in 1..Len(s) |-> IF j < Find(s, " ") THEN CharToLowercase(s[j]) ELSE s[j]]

\* C26: for every endpoint string "<scheme> <address>" with scheme udp, tcp or bp
\* in any letter case, format(parse(s)) is s with the scheme lower-cased; and
\* parse(format(e)) = e for every Endpoint e.
C26_RoundTrip ==
    /\ (call.fn = "from_str" /\ KnownScheme(call.arg))
       => /\ call.ret.ok
          /\ EndpointToString(call.ret.val) = SchemeLowered(call.arg)
    /\ call.fn = "to_string" => FromStr(call.ret) = ParseOk(call.arg)

\* "UDP 127.0.0.1:9" was parsed, to the Udp endpoint that formats as
\* "udp 127.0.0.1:9".
C26_Witness ==
    /\ call.fn = "from_str"
    /\ call.arg = <<"U", "D", "P", " ", "1", "2", "7", ".", "0", ".", "0", ".", "1", ":", "9">>
    /\ call.ret = ParseOk(Endpoint("Udp", <<"1", "2", "7", ".", "0", ".", "0", ".", "1", ":", "9">>))
    /\ EndpointToString(call.ret.val) = <<"u", "d", "p", " ", "1", "2", "7", ".", "0", ".", "0", ".", "1", ":", "9">>

\* A non-empty string of decimal digits.
IsDecimalToken(tok) == tok # <<>> /\ \A i \in 1..Len(tok) : IsDigit(tok[i])

\* tok without one leading '+'.
Unsigned(tok) == IF tok # <<>> /\ Head(tok) = "+" THEN Tail(tok) ELSE tok

\* The decimal digits of 2^32 - 1.
U32MaxDigits == <<"4", "2", "9", "4", "9", "6", "7", "2", "9", "5">>

RECURSIVE StripZeros(_)
StripZeros(tok) ==
    IF Len(tok) > 1 /\ Head(tok) = "0" THEN StripZeros(Tail(tok)) ELSE tok

\* The number written by the decimal token is within 0..2^32-1: it has fewer
\* digits than 2^32 - 1, or as many and it is not later in digit order.
InU32Range(tok) ==
    LET n == StripZeros(tok)
        m == U32MaxDigits
    IN  \/ Len(n) < Len(m)
        \/ /\ Len(n) = Len(m)
           /\ \/ n = m
              \/ \E i \in 1..Len(m) :
                    /\ \A j \in 1..(i - 1) : n[j] = m[j]
                    /\ DigitValue(n[i]) < DigitValue(m[i])

\* body is two tokens separated by exactly one '.', each a number within
\* 0..2^32-1 once Strip has been applied to it.
IpnBodyOk(body, Strip(_)) ==
    /\ Cardinality({i \in 1..Len(body) : body[i] = "."}) = 1
    /\ LET d == Find(body, ".")
           node == Strip(SubSeq(body, 1, d - 1))
           service == Strip(SubSeq(body, d + 1, Len(body)))
       IN  /\ IsDecimalToken(node) /\ InU32Range(node)
           /\ IsDecimalToken(service) /\ InU32Range(service)

\* A Bp address of the ipn:<node>.<service> form of the specification, or a dtn:
\* address; a Udp or Tcp address of the a.b.c.d:port form.
IsSocketAddr(a) ==
    LET parts == Split(a, ":") IN
    /\ Len(parts) = 2
    /\ IsDecimalToken(parts[2])
    /\ LET host == Split(parts[1], ".") IN
       Len(host) = 4 /\ \A i \in 1..4 : IsDecimalToken(host[i])
AddrConsistent(e) ==
    IF e.proto = "Bp"
    THEN \/ /\ StartsWith(e.endpoint, <<"i", "p", "n", ":">>)
            /\ IpnBodyOk(StripPrefix(e.endpoint, <<"i", "p", "n", ":">>),
                         LAMBDA tok : tok)
         \/ StartsWith(e.endpoint, <<"d", "t", "n", ":">>)
    ELSE IsSocketAddr(e.endpoint)

\* C27: parse fails for an unknown scheme and for an address whose syntax is
\* inconsistent with the scheme ("bp ipn:12", "bp ipn:abc.1"), so every Endpoint
\* that parse produces has an address consistent with its protocol.
C27_ParsedAddressIsConsistent ==
    call.fn = "from_str" =>
        /\ ~KnownScheme(call.arg) => ~call.ret.ok
        /\ call.ret.ok => AddrConsistent(call.ret.val)

\* What the address builder returns for s according to the rules, checked in
\* order: empty, "ipn:", "dtn:", anything else.
BuilderRule(s, Strip(_)) ==
    IF s = <<>> THEN "InvalidInput"
    ELSE IF StartsWith(s, <<"i", "p", "n", ":">>)
    THEN IF IpnBodyOk(StripPrefix(s, <<"i", "p", "n", ":">>), Strip)
         THEN "Ok" ELSE "InvalidInput"
    ELSE IF StartsWith(s, <<"d", "t", "n", ":">>) THEN "Unsupported"
    ELSE "InvalidInput"

BuilderOutcome(ret) == IF ret.ok THEN "Ok" ELSE ret.kind

\* C28 as stated: the address builder returns InvalidInput for the empty string;
\* for an "ipn:" prefix success exactly when the remainder is two non-empty
\* decimal tokens separated by exactly one '.', each within 0..2^32-1, and
\* InvalidInput otherwise; Unsupported for a "dtn:" prefix; InvalidInput for
\* anything else.
C28_BuilderByDecimalTokens ==
    call.fn = "create_bp_sockaddr_with_string" =>
        BuilderOutcome(call.ret) = BuilderRule(call.arg, LAMBDA tok : tok)

\* C28, amended: the same, where each token is a non-empty string of decimal
\* digits that one '+' may precede.
C28_BuilderBySignedTokens ==
    call.fn = "create_bp_sockaddr_with_string" =>
        BuilderOutcome(call.ret) = BuilderRule(call.arg, Unsigned)

\* The builder was given "ipn:4294967296.0" and returned InvalidInput.
C28_Witness ==
    /\ call.fn = "create_bp_sockaddr_with_string"
    /\ call.arg = <<"i", "p", "n", ":", "4", "2", "9", "4", "9", "6", "7", "2", "9", "6", ".", "0">>
    /\ call.ret = SockAddrErr("InvalidInput")

\* C29: a second start on a GenericSocket whose listening flag is set returns
\* success without changing socket options, rebinding, emitting any event or
\* starting a second loop: every step of such a call leaves the OS sockets, the
\* cache and the observers' calls as they are, emits nothing, records no failure
\* and goes straight to the return.
C29_SecondStartIsNoOp ==
    [][\A t \in TaskIds :
          (tasks[t].kind = "restart" /\ tasks'[t] # tasks[t]) =>
              /\ tasks[t].res.sock.listening
              /\ os' = os /\ sockets' = sockets /\ log' = log
              /\ Len(tasks') = Len(tasks)
              /\ tasks'[t].em = <<>> /\ tasks'[t].fail = "none"
              /\ tasks'[t].res = tasks[t].res
              /\ tasks'[t].pc \in {"l_ret", "done"}]_vars

\* A stream listener ended on an accept error with its socket bound and its flag
\* set, start_listener was called on the socket again, and the call has returned.
C29_Witness ==
    \E t \in TaskIds, u \in TaskIds :
        /\ tasks[t].kind = "listener" /\ "accept" \in tasks[t].failed
        /\ tasks[u].kind = "restart" /\ tasks[u].pc = "done"
        /\ tasks[u].res = tasks[t].res
        /\ tasks[u].res.sock.listening
        /\ os[tasks[u].res.sock.fd].bound = "bound"
        /\ tasks[u].em = <<>>

\* C30: the socket cache is changed only by start_listener_async: a call with
\* successful creation and duplication maps its endpoint to a duplicate of the new
\* socket handed to the listener, a call whose creation or duplication fails
\* leaves the cache as it is, and so does every other step: add_observer,
\* send_async and the steps of the tasks.
C30_CacheChangedOnlyByStart ==
    [][IF nStarts' # nStarts
       THEN LET new == tasks'[Len(tasks')] IN
            /\ Len(tasks') = Len(tasks) + 1 /\ new.kind = "listener"
            /\ IF new.res.ok
               THEN /\ sockets' = [sockets EXCEPT ![new.endpoint] = new.res.sock]
                    /\ new.res.sock.endpoint = new.endpoint
                    /\ new.res.sock.fd = Len(os) + 1
                    /\ new.fail = "none"
               ELSE /\ sockets' = sockets
                    /\ new.fail \in {"create", "dup"}
       ELSE sockets' = sockets]_vars

\* After add_observer, a start_listener_async whose socket was then bound by its
\* listener, and a send_async that made a socket of its own, the cache holds the
\* listener's socket under the listener's endpoint and nothing else.
C30_Witness ==
    \E t \in TaskIds, u \in TaskIds :
        /\ Len(observers) > 0
        /\ tasks[t].kind = "listener" /\ tasks[t].res.ok
        /\ os[tasks[t].res.sock.fd].bound = "bound"
        /\ tasks[u].kind = "send" /\ tasks[u].res.ok
        /\ tasks[u].res.sock.fd # tasks[t].res.sock.fd
        /\ sockets[tasks[t].endpoint].fd = tasks[t].res.sock.fd
        /\ \A e \in AllEndpoints \ {tasks[t].endpoint} : sockets[e] = NoSocket

\* The tasks that read one accepted stream connection.
IsConnectionReader(t) == tasks[t].kind \in {"reader", "stream_handler"}

\* The accept whose connection task t reads was reported as Established{remote}.
EstablishedFor(t, remote) ==
    \E u \in TaskIds : \E k \in 1..Len(tasks[u].em) :
        /\ tasks[u].kind \in {"listener", "tcp_handler"}
        /\ tasks[u].endpoint = tasks[t].endpoint
        /\ tasks[t].peer = remote
        /\ tasks[u].em[k] = Established(remote)

\* C31: for each accepted stream connection, the from of every Received event and
\* the remote of the Closed event are the remote peer address of the connection's
\* Established event, not the listener's own endpoint.
C31_FromIsEstablishedRemote ==
    \A t \in TaskIds :
        IsConnectionReader(t) =>
            \A k \in 1..Len(tasks[t].em) :
                tasks[t].em[k].type \in {"Received", "Closed"} =>
                    /\ EstablishedFor(t, tasks[t].em[k].ep)
                    /\ tasks[t].em[k].ep # tasks[t].endpoint

\* The integer the bytes bs hold (least significant byte first), on two limbs.
RECURSIVE LeValue(_)
LeValue(bs) ==
    IF bs = <<>> THEN [hi |-> 0, lo |-> 0]
    ELSE LET rest == LeValue(Tail(bs))
             x == rest.lo * 256 + Head(bs)
         IN  [hi |-> rest.hi * 256 + x \div Limb, lo |-> x % Limb]

\* The bytes of the storage that belong to a field of the record.
FieldPositions == (1..2) \cup (5..16)

\* C32: for every node id n and service id s, the address built for "ipn:n.s" has
\* family = the custom family constant, scheme_id = 1, node_id = n,
\* service_id = s, declared length = the record's size, and every other byte of
\* the storage zero.
C32_RecordFieldsAndZeroElsewhere ==
    (call.fn = "create_bp_sockaddr_with_string" /\ call.ret.ok) =>
        /\ call.len = 16
        /\ LeValue(SubSeq(call.storage, 1, 2)) = [hi |-> 0, lo |-> 28]
        /\ LeValue(SubSeq(call.storage, 5, 8)) = [hi |-> 0, lo |-> 1]
        /\ LeValue(SubSeq(call.storage, 9, 12)) = call.ret.node_id
        /\ LeValue(SubSeq(call.storage, 13, 16)) = call.ret.service_id
        /\ \A i \in DOMAIN call.storage : i \notin FieldPositions => call.storage[i] = 0

\* The same with the padding bytes of the record left out: the fields are right
\* and the storage past the record is zero.
C32_FieldsRight ==
    (call.fn = "create_bp_sockaddr_with_string" /\ call.ret.ok) =>
        /\ call.len = 16
        /\ LeValue(SubSeq(call.storage, 1, 2)) = [hi |-> 0, lo |-> 28]
        /\ LeValue(SubSeq(call.storage, 5, 8)) = [hi |-> 0, lo |-> 1]
        /\ LeValue(SubSeq(call.storage, 9, 12)) = call.ret.node_id
        /\ LeValue(SubSeq(call.storage, 13, 16)) = call.ret.service_id
        /\ \A i \in DOMAIN call.storage : i > 16 => call.storage[i] = 0

\* What the specification asks of a socket made for an endpoint of protocol proto.
RequiredParams(proto) ==
    IF proto = "Udp" THEN [domain |-> 2, type |-> 2, protocol |-> 17]
    ELSE IF proto = "Tcp" THEN [domain |-> 2, type |-> 1, protocol |-> 6]
    ELSE [domain |-> 28, type |-> 2, protocol |-> 0]

\* C33: socket creation derives (family, type, protocol) from the endpoint's
\* protocol: Datagram gives (family of the address, datagram, UDP), Stream gives
\* (family of the address, stream, TCP), CustomDtn gives (custom family, datagram,
\* protocol 0); the new socket has listening = false, and an unparsable address
\* yields an error with no socket created.
C33_ParamsByProtocol ==
    \A t \in TaskIds :
        tasks[t].kind \in {"listener", "send"} =>
            LET r == tasks[t].res IN
            /\ (r.ok /\ r.created) =>
                  /\ os[r.sock.fd].params = RequiredParams(r.sock.endpoint.proto)
                  /\ tasks[t].pc \in {"l_start", "s_start"} => ~r.sock.listening
            /\ (tasks[t].kind = "listener" /\ ~AddrParses(tasks[t].endpoint)) =>
                  ~r.ok /\ ~r.created

\* The same for the two standard protocols only.
C33_ParamsOfUdpAndTcp ==
    \A t \in TaskIds :
        tasks[t].kind \in {"listener", "send"} =>
            LET r == tasks[t].res IN
            /\ (r.ok /\ r.created /\ r.sock.endpoint.proto # "Bp") =>
                  /\ os[r.sock.fd].params = RequiredParams(r.sock.endpoint.proto)
                  /\ tasks[t].pc \in {"l_start", "s_start"} => ~r.sock.listening
            /\ (tasks[t].kind = "listener" /\ ~AddrParses(tasks[t].endpoint)) =>
                  ~r.ok /\ ~r.created

\* Observer o was not called with y before x.
NotAfter(o, x, y) ==
    \A m \in DOMAIN log[o] :
        log[o][m] = x => \A n \in 1..(m - 1) : log[o][n] # y

\* Observers a and b were called with the same two events, a in the order
\* log[a][i], log[a][j] and b in the order log[b][m], log[b][n].
SamePair(a, i, j, b, m, n) ==
    /\ i < j
    /\ log[a][i] = log[b][m]
    /\ log[a][j] = log[b][n]

\* C34 (as stated): all observers see a consistent order: any two events that are
\* both delivered to observers A and B reach A and B in the same relative order,
\* even when they are emitted by different concurrent tasks.
C34_SameOrderAtAllObservers ==
    \A a \in ObserverIds : \A j \in DOMAIN log[a] : \A i \in 1..(j - 1) :
        \A b \in ObserverIds : NotAfter(b, log[a][i], log[a][j])

\* C34 (amended): any two events emitted by the same task that are both delivered
\* to observers A and B reach A and B in the same relative order; events of
\* different concurrent tasks are not ordered alike at A and B.
C34_SameOrderPerTask ==
    \A a \in ObserverIds : \A j \in DOMAIN log[a] : \A i \in 1..(j - 1) :
        log[a][i].t = log[a][j].t =>
            \A b \in ObserverIds : NotAfter(b, log[a][i], log[a][j])

\* Two observers have both been called with the same two events of one task, and
\* with an event of another task as well.
C34_Witness ==
    \E a \in ObserverIds, b \in ObserverIds :
        /\ a # b
        /\ \E i \in DOMAIN log[a], j \in DOMAIN log[a] :
              \E m \in DOMAIN log[b], n \in DOMAIN log[b] :
                  /\ SamePair(a, i, j, b, m, n)
                  /\ log[a][i].t = log[a][j].t
                  /\ \E x \in DOMAIN log[a], y \in DOMAIN log[b] :
                        /\ log[a][x] = log[b][y]
                        /\ log[a][x].t # log[a][i].t

\* Observer o was called with an event of the given type emitted by task t.
Got(o, t, type) ==
    \E i \in DOMAIN log[o] :
        log[o][i].t = t /\ tasks[t].em[log[o][i].k].type = type

\* C35: no send request produces both a Sent and a SendFailed event: for each
\* send request at most one of the two is ever delivered, for every protocol and
\* every combination of write, flush and shutdown outcomes.
C35_NeverSentAndSendFailed ==
    \A t \in TaskIds : \A o \in ObserverIds :
        tasks[t].kind \in {"send", "tcp_sender"} =>
            ~(Got(o, t, "Sent") /\ Got(o, t, "SendFailed"))

\* The same for the requests whose send path is one send_to call.
C35_DatagramNeverBoth ==
    \A t \in TaskIds : \A o \in ObserverIds :
        (tasks[t].kind = "send" /\ tasks[t].path = "sendto") =>
            ~(Got(o, t, "Sent") /\ Got(o, t, "SendFailed"))

\* The n-th send request has completed: its task has emitted a terminal event, has
\* handed it to the observers and has returned.
Completed(n) ==
    /\ Len(tasks) >= n
    /\ tasks[n].pc = "done" /\ tasks[n].ni = 0
    /\ \E k \in 1..Len(tasks[n].em) :
          tasks[n].em[k].type \in {"Sent", "SendFailed", "ConnectionFailed", "SocketError"}

\* C36: every send_async request eventually completes: under fair scheduling, and
\* with every socket call returning, the send task delivers at least one terminal
\* event (Sent, SendFailed, ConnectionFailed or SocketError) and then terminates.
C36_SendEventuallyCompletes ==
    \A n \in 1..MaxSends : (nSends >= n) ~> Completed(n)

\* The same, unless send_async panicked or a fan-out waits at a lock that is never
\* released.
C36_CompletesUnlessStalled ==
    \A n \in 1..MaxSends :
        (nSends >= n) ~>
            (Completed(n) \/ panicked \/ \E o \in ObserverIds : lockSt[o] = "held")

\* The event observer o was called with at position i of its log.
EventAt(o, i) == tasks[log[o][i].t].em[log[o][i].k]

\* C37: every Closed event delivered to observers names a remote endpoint for
\* which an Established event with the same remote was delivered earlier; no
\* Closed is emitted without a remote or without a preceding Established.
C37_ClosedFollowsEstablished ==
    \A o \in ObserverIds : \A i \in DOMAIN log[o] :
        EventAt(o, i).type = "Closed" =>
            /\ EventAt(o, i).ep # NoEndpoint
            /\ \E j \in 1..(i - 1) : EventAt(o, j) = Established(EventAt(o, i).ep)

\* The same for the Closed events that do name a remote.
C37_NamedClosedFollowsEstablished ==
    \A o \in ObserverIds : \A i \in DOMAIN log[o] :
        (EventAt(o, i).type = "Closed" /\ EventAt(o, i).ep # NoEndpoint) =>
            \E j \in 1..(i - 1) : EventAt(o, j) = Established(EventAt(o, i).ep)

\* Task t is a listener that has bound its socket and is in its accept or receive
\* loop.
ListenerRunning(t) ==
    /\ tasks[t].kind = "listener"
    /\ tasks[t].res.ok
    /\ tasks[t].fail = "none"
    /\ tasks[t].pc \in {"l_recv", "l_accept", "l_spawn"}

\* C38: at every moment, for each endpoint e for which a listener is running, the
\* socket cache entry for e refers to the same OS socket as that listener: a later
\* start_listener_async(e) does not replace the entry of the still-running
\* listener with a different, unbound socket.
C38_CacheEntryIsRunningListener ==
    \A t \in TaskIds :
        ListenerRunning(t) => sockets[tasks[t].endpoint].fd = tasks[t].res.sock.fd

\* The same while start_listener_async has been called once for the endpoint.
C38_CacheEntryOfOnlyStart ==
    \A t \in TaskIds :
        (/\ ListenerRunning(t)
         /\ \A u \in TaskIds \ {t} :
               tasks[u].kind = "listener" => tasks[u].endpoint # tasks[t].endpoint)
            => sockets[tasks[t].endpoint].fd = tasks[t].res.sock.fd

\* start_listener was called on the socket of task t and returned an error.
StartListenerFailed(t) ==
    /\ tasks[t].kind \in {"listener", "restart"}
    /\ tasks[t].res.ok
    /\ tasks[t].fail \in {"opts", "bind", "listen_failed", "clone_failed"}

\* C39: the listening flag of a GenericSocket is true only if the socket was bound
\* and its listener loop was entered: whenever start_listener returns an error
\* (bind, listen or handle-duplication failure), listening is false afterwards.
C39_FailedStartLeavesFlagFalse ==
    \A t \in TaskIds :
        StartListenerFailed(t) => ~tasks[t].res.sock.listening

\* The same for the failures inside prepare_socket (the option calls and bind).
C39_FailedPrepareLeavesFlagFalse ==
    \A t \in TaskIds :
        (StartListenerFailed(t) /\ tasks[t].fail \in {"opts", "bind"})
            => ~tasks[t].res.sock.listening

\* The last element of a non-empty sequence.
Last(q) == q[Len(q)]

\* In this step the receive call of listener t returns Ok(0).
ZeroByteReceive(t) ==
    /\ Running(t, "l_recv")
    /\ Len(tasks'[t].reads) = Len(tasks[t].reads) + 1
    /\ Last(tasks'[t].reads) = 0

\* C40: in the datagram and custom-transport listener, a successful receive of
\* zero bytes delivers one Received event with empty data and the loop keeps
\* receiving; it is never treated as a close and never terminates the listener.
C40_ZeroByteReceiveIsData ==
    [][\A t \in TaskIds :
          ZeroByteReceive(t) =>
              /\ Len(tasks'[t].em) = Len(tasks[t].em) + 1
              /\ Last(tasks'[t].em).type = "Received"
              /\ Last(tasks'[t].em).bytes = 0
              /\ Last(tasks'[t].em).data = <<>>
              /\ tasks'[t].pc = "l_recv"]_vars

\* A custom-transport listener has received zero bytes, an observer was called with
\* the empty Received event, and the loop has since made another receive call.
C40_Witness ==
    \E t \in TaskIds : \E o \in ObserverIds :
        /\ tasks[t].kind = "listener"
        /\ tasks[t].endpoint.proto = "Bp"
        /\ tasks[t].reads = <<0>>
        /\ tasks[t].em[1].type = "Received" /\ tasks[t].em[1].bytes = 0
        /\ \E i \in DOMAIN log[o] : log[o][i] = [t |-> t, k |-> 1]
        /\ tasks[t].pc = "l_recv" /\ tasks[t].ni = 0
        /\ \E i \in DOMAIN tasks[t].wb : tasks[t].wb[i] >= 1
====
